---- MODULE Spec2Model ----
(***************************************************************************)
(* A model of the medical-research-fetcher: the fetch orchestrator         *)
(* (ArticleProcessor.search_and_process), the PubMed client operations it  *)
(* calls, the local blob store, the pacing decorator (rate_limit) and the  *)
(* concurrent PDF fan-out (PubMedClient.batch_fetch_pdfs).                  *)
(*                                                                         *)
(* Three specifications share the variables:                               *)
(*   Spec       one batch of search_and_process, one step per await        *)
(*   SpecPace   a sequential caller of the rate-limited client operations, *)
(*              with a wall clock                                          *)
(*   SpecBatch  batch_fetch_pdfs: the fetch_pdf tasks of one gather,       *)
(*              interleaved at their await points, with a wall clock       *)
(*   SpecDate   PubMedXMLParser._parse_date applied to one date element    *)
(*   SpecRec    the three constructors of PubMedArticle (from_xml with the *)
(*              parser, from_esummary, from_pymed_article) applied to one  *)
(*              upstream record, followed by to_dict                       *)
(***************************************************************************)
EXTENDS Integers, Sequences, FiniteSets, TLC

(***************************************************************************)
(* Bounds                                                                  *)
(***************************************************************************)
\* largest number of search results of a batch (max_results)
MaxResults == 2

\* the external ids (pmids) the upstream may return
Pmids == 1..MaxResults

\* the query of the batch
Query == "q"

\* largest request_delay a client is configured with, in ticks
MaxDelay == 2

\* longest duration of one upstream call, in ticks
MaxDur == 1

\* the wall clock stops advancing on its own at this tick
MaxTime == 6

\* number of rate-limited calls the sequential caller makes
MaxCalls == 4

\* largest number of ids handed to batch_fetch_pdfs
MaxTasks == 2

\* longest text of a Year, Month or Day node, in characters
MaxText == 2

\* largest number of Author elements of a citation document
MaxAuthors == 2

\* largest number of elements of every other list of an upstream record
MaxItems == 1

\* largest number of bytes of a content handed to save_file
MaxBytes == 1

\* largest number of calls of search_and_process on one storage
MaxBatches == 2

\* largest number of search results of a batch whose calls are followed
\* through their pacing gates
MaxPacedResults == 1

\* @rate_limit() : delay = 0.34 s, in ticks of 10 ms
DefaultDelay == 34

\* @rate_limit(delay=0.01) on fetch_pdf, in ticks of 10 ms
PdfDelay == 1

\* strftime with '%Y%m%d_%H%M' : the local date and time without the seconds
StrftimeMinutes(t) ==
    LET Digit == <<"0", "1", "2", "3", "4", "5", "6", "7", "8", "9">>
        Pad2(n) == Digit[((n \div 10) % 10) + 1] \o Digit[(n % 10) + 1]
        seconds == t \div 100
    IN  "20240101_" \o Pad2(seconds \div 3600) \o Pad2((seconds \div 60) % 60)

\* datetime.now().strftime('%Y%m%d_%H%M%S') at clock reading t (ticks of
\* 10 ms since 2024-01-01 00:00:00 local time): the date, and the hour,
\* minute and whole second as two digits each; the fraction of the second
\* is dropped
Strftime(t) ==
    LET Digit == <<"0", "1", "2", "3", "4", "5", "6", "7", "8", "9">>
        Pad2(n) == Digit[((n \div 10) % 10) + 1] \o Digit[(n % 10) + 1]
        seconds == t \div 100
    IN  "20240101_" \o Pad2(seconds \div 3600) \o Pad2((seconds \div 60) % 60)
            \o Pad2(seconds % 60)

\* the batch identifiers of the clock readings of the model
BatchIds == {Strftime(t) : t \in 0 .. (MaxDelay + 100 * MaxBatches)}

\* datetime.now().isoformat() at clock reading t
Isoformat(t) ==
    LET Digit == <<"0", "1", "2", "3", "4", "5", "6", "7", "8", "9">>
        Pad2(n) == Digit[((n \div 10) % 10) + 1] \o Digit[(n % 10) + 1]
        seconds == t \div 100
    IN  "2024-01-01T" \o Pad2(seconds \div 3600) \o ":"
            \o Pad2((seconds \div 60) % 60) \o ":" \o Pad2(seconds % 60)
            \o "." \o Pad2(t % 100)

(***************************************************************************)
(* State                                                                   *)
(***************************************************************************)
VARIABLES
    pc,            \* position of search_and_process
    articles,      \* pmids of the search results, in search order
    searchOk,      \* FALSE when the upstream query of the initial search raised
    search_id,     \* the batch identifier
    idx,           \* index in articles of the id being processed (the for loop)
    cur,           \* what happened so far to the id being processed
    results,       \* the list `results`: metadata of the processed articles
    failed_pmids,  \* the list `failed_pmids`
    store,         \* the blob store: path -> blob
    metaSave,      \* outcome of the save of the search-metadata blob
    result,        \* what search_and_process returned
    batches        \* the calls so far: when the search returned, the identifier

VARIABLES
    now,           \* the wall clock, time.time(), in ticks of 10 ms
    last_call,     \* the closure variable last_call of each decorated operation
    request_delay, \* the attribute request_delay of the client
    stack,         \* the rate-limited calls in progress, innermost last
    nCalls,        \* number of rate-limited calls made so far
    prevCall,      \* the underlying call that returned last
    lastStart,     \* the underlying call that started last
    article_ids,   \* the argument of batch_fetch_pdfs
    tasks,         \* the fetch_pdf tasks of the gather
    batchResult    \* what batch_fetch_pdfs returned

orchVars == <<pc, articles, searchOk, search_id, idx, cur, results,
              failed_pmids, store, metaSave, result, batches>>

clockVars == <<now, last_call, request_delay>>

paceVars == <<stack, nCalls, prevCall, lastStart>>

batchVars == <<article_ids, tasks, batchResult>>

VARIABLES
    date_elem,     \* the argument of _parse_date
    parsed_date,   \* what _parse_date returned or raised
    raw_record,    \* the upstream record handed to a constructor
    parsed_xml,    \* what parse_pubmed_article returned to from_xml, or raised
    best_date,     \* what get_best_date returned for the dates of the record
    reconciled,    \* the PubMedArticle the constructor returned, or what it raised
    serialized     \* to_dict() of that article

recVars ==
    <<date_elem, parsed_date, raw_record, parsed_xml, best_date, reconciled,
      serialized>>

VARIABLES
    files,         \* the files under base_path: relative path -> content
    save_call      \* the last call of save_file: its arguments and its outcome

storeVars == <<files, save_call>>

vars == <<orchVars, clockVars, paceVars, batchVars, recVars, storeVars>>

(***************************************************************************)
(* Sequences                                                               *)
(***************************************************************************)
Range(s) == {s[k] : k \in DOMAIN s}

Last(s) == s[Len(s)]

\* the id lists a search may return: distinct pmids, any order
SearchResults ==
    {s \in UNION {[1..n -> Pmids] : n \in 0..MaxResults} :
        \A a, b \in DOMAIN s : s[a] = s[b] => a = b}

\* s is t with some elements left out (order kept)
RECURSIVE IsSubSeq(_, _)
IsSubSeq(s, t) ==
    IF s = <<>> THEN TRUE
    ELSE IF t = <<>> THEN FALSE
    ELSE IF Head(s) = Head(t) THEN IsSubSeq(Tail(s), Tail(t))
    ELSE IsSubSeq(s, Tail(t))

(***************************************************************************)
(* Blob store (LocalStorage)                                               *)
(***************************************************************************)
\* metadata/searches/{search_id}.json
SearchPath(sid) == <<"metadata/searches", sid>>

\* metadata/searches/{search_id}_summary.json
SearchSummaryPath(sid) == <<"metadata/searches_summary", sid>>

\* metadata/{metadata_type}/{pmid}.json
MetadataPath(metadata_type, pmid) ==
    IF metadata_type = "xml" THEN <<"metadata/xml", pmid>>
    ELSE <<"metadata/summary", pmid>>

\* pdfs/{pmid}.pdf
PdfPath(pmid) == <<"pdfs", pmid>>

Paths ==
    {SearchPath(b) : b \in BatchIds}
    \cup {SearchSummaryPath(b) : b \in BatchIds}
    \cup {MetadataPath(t, p) : t \in {"xml", "summary"}, p \in Pmids}
    \cup {PdfPath(p) : p \in Pmids}

\* a blob: what it is, the ids it lists, the shape its record was built
\* from, and the timestamp the two blobs of a batch carry
Blob(kind, pmids, src) ==
    [kind |-> kind, pmids |-> pmids, src |-> src, at |-> "none"]

Absent == Blob("absent", <<>>, "none")

\* how one save_file call can end: the blob is written and True returned, or
\* mkdir / open raised, the exception was caught and False returned
SaveOutcomes == {"ok", "fail"}

\* LocalStorage.save_file: the store after the call
SaveFile(st, path, content, outcome) ==
    IF outcome = "ok" THEN [st EXCEPT ![path] = content] ELSE st

(***************************************************************************)
(* Articles                                                                *)
(***************************************************************************)
\* An Article as far as the orchestrator depends on it: the shape it was
\* built from, whether its keyword list holds an entry without text
\* (kw.text is None for a Keyword element with no leading text), and whether
\* its to_dict() is JSON-serialisable (from_xml yields strings, lists and
\* dicts only; from_pymed_article passes attributes of the upstream object
\* through unchecked).
Article(src, kwNull, jsonable) ==
    [src |-> src, kwNull |-> kwNull, jsonable |-> jsonable]

NoArticle == Article("none", FALSE, TRUE)

\* PubMedArticle.to_dict as the orchestrator uses it
ToDict(article, pmid) ==
    [pmid |-> pmid, src |-> article.src, jsonable |-> article.jsonable]

\* _log_article_details raises on ', '.join(article.keywords) when a keyword
\* is None
LogArticleDetailsRaises(article) == article.kwNull

(***************************************************************************)
(* Per-id bookkeeping                                                      *)
(***************************************************************************)
FreshCur ==
    [xml1    |-> "none",   \* the orchestrator's own fetch_xml
     xml2    |-> "none",   \* the fetch_xml inside fetch_by_id
     fb      |-> "none",   \* the fallback search inside fetch_by_id
     article |-> NoArticle,
     exc     |-> FALSE,    \* an exception reached the per-id handler
     recSave |-> "none",   \* _save_metadata(metadata, pmid, "xml")
     sum     |-> "none",   \* fetch_summary
     sumSave |-> "none",
     pdf     |-> "none",   \* fetch_pdf
     pdfSave |-> "none",
     status  |-> "none"]

pmid == articles[idx]

InitOrch ==
    /\ pc = "search"
    /\ articles = <<>>
    /\ searchOk = TRUE
    /\ search_id = "none"
    /\ idx = 0
    /\ cur = FreshCur
    /\ results = <<>>
    /\ failed_pmids = <<>>
    /\ store = [p \in Paths |-> Absent]
    /\ metaSave = "none"
    /\ result = [kind |-> "none"]
    /\ batches = <<>>

(***************************************************************************)
(* search_and_process, one action per awaited call.  The pacing gate in    *)
(* front of each client operation delays the call and does not change its  *)
(* outcome; it is modelled in SpecPace.                                    *)
(***************************************************************************)

\* PubMedClient.search: the list it returns.  An exception of the upstream
\* query is caught inside search, which then returns the empty list.
ClientSearch(upstream, found) ==
    IF upstream = "ok" THEN found ELSE <<>>

\* the content of the search-metadata blob
SearchMetadata(arts) ==
    [Blob("search_results", arts, "none") EXCEPT !.at = Isoformat(now)]

\* the aggregate search_and_process returns, also the content of the
\* summary blob
Summary(sid, arts, res, failed) ==
    [kind                   |-> "aggregate",
     search_id              |-> sid,
     query                  |-> Query,
     total_articles_found   |-> Len(arts),
     successfully_processed |-> Len(res),
     failed_processing      |-> Len(failed),
     failed_pmids           |-> failed,
     articles               |-> res]

\* the error-tagged result of the outer handler
ErrorResult == [kind |-> "error", query |-> Query]

\* line 80: articles = await self.client.search(query, max_results)
Search ==
    /\ pc = "search"
    /\ UNCHANGED <<clockVars, paceVars, batchVars, recVars, storeVars>>
    /\ \E upstream \in {"ok", "raise"}, found \in SearchResults :
          /\ upstream = "raise" => found = <<>>
          /\ articles' = ClientSearch(upstream, found)
          /\ searchOk' = (upstream = "ok")
    /\ search_id' = Strftime(now)
    /\ batches' = Append(batches, [at |-> now, search_id |-> Strftime(now)])
    /\ pc' = "save_search_metadata"
    /\ UNCHANGED <<idx, cur, results, failed_pmids, store, metaSave, result>>

\* the save of the search-metadata blob left out at this point
SaveSearchMetadataSkipped ==
    /\ pc = "save_search_metadata"
    /\ UNCHANGED <<clockVars, paceVars, batchVars, recVars, storeVars>>
    /\ results' = <<>>
    /\ failed_pmids' = <<>>
    /\ idx' = 1
    /\ cur' = FreshCur
    /\ pc' = IF articles = <<>> THEN "summarize" ELSE "fetch_xml"
    /\ UNCHANGED <<articles, searchOk, search_id, batches, result, store,
                   metaSave>>

\* lines 84-100: the search-metadata blob is saved, the two lists are created
SaveSearchMetadata ==
    /\ pc = "save_search_metadata"
    /\ UNCHANGED <<clockVars, paceVars, batchVars, recVars, storeVars>>
    /\ \E outcome \in SaveOutcomes :
          /\ store' = SaveFile(store, SearchPath(search_id),
                               SearchMetadata(articles), outcome)
          /\ metaSave' = outcome
    /\ results' = <<>>
    /\ failed_pmids' = <<>>
    /\ idx' = 1
    /\ cur' = FreshCur
    /\ pc' = IF articles = <<>> THEN "summarize" ELSE "fetch_xml"
    /\ UNCHANGED <<articles, searchOk, search_id, batches, result>>

\* the id is put on failed_pmids and its summary is fetched all the same
MarkFailedGoesOn(c) ==
    /\ UNCHANGED <<clockVars, paceVars, batchVars, recVars, storeVars>>
    /\ cur' = [c EXCEPT !.status = "failed"]
    /\ failed_pmids' = Append(failed_pmids, pmid)
    /\ pc' = "fetch_summary"
    /\ UNCHANGED <<articles, searchOk, search_id, batches, idx, results, store,
                   metaSave, result>>

\* lines 139-140: the id is appended to failed_pmids without an exception
MarkFailed(c) ==
    /\ UNCHANGED <<clockVars, paceVars, batchVars, recVars, storeVars>>
    /\ cur' = [c EXCEPT !.status = "failed"]
    /\ failed_pmids' = Append(failed_pmids, pmid)
    /\ pc' = "next"
    /\ UNCHANGED <<articles, searchOk, search_id, batches, idx, results, store,
                   metaSave, result>>

\* the per-id handler left out: the exception reaches the outer handler,
\* which ends the batch with the error result
PerIdExceptionPropagates(c) ==
    /\ UNCHANGED <<clockVars, paceVars, batchVars, recVars, storeVars>>
    /\ cur' = [c EXCEPT !.exc = TRUE]
    /\ result' = ErrorResult
    /\ pc' = "done"
    /\ UNCHANGED <<articles, searchOk, search_id, batches, idx, results,
                   failed_pmids,
                   store, metaSave>>

\* the per-id handler without its failed_pmids.append(pmid): the id of an
\* exception is on neither list
PerIdExceptionDropsId(c) ==
    /\ UNCHANGED <<clockVars, paceVars, batchVars, recVars, storeVars>>
    /\ cur' = [c EXCEPT !.status = "failed", !.exc = TRUE]
    /\ pc' = "next"
    /\ UNCHANGED <<articles, searchOk, search_id, batches, idx, results,
                   failed_pmids,
                   store, metaSave, result>>

\* lines 142-144: the per-id handler catches the exception
PerIdException(c) ==
    /\ UNCHANGED <<clockVars, paceVars, batchVars, recVars, storeVars>>
    /\ cur' = [c EXCEPT !.status = "failed", !.exc = TRUE]
    /\ failed_pmids' = Append(failed_pmids, pmid)
    /\ pc' = "next"
    /\ UNCHANGED <<articles, searchOk, search_id, batches, idx, results, store,
                   metaSave, result>>

\* line 107: xml_content = await self.client.fetch_xml(pmid).  fetch_xml
\* returns the text, or None (status other than 200, or an exception of the
\* request, caught inside), or raises (session set-up, outside its try).
FetchXml ==
    /\ pc = "fetch_xml"
    /\ \E outcome \in {"ok", "absent", "raise"} :
          LET c == [cur EXCEPT !.xml1 = outcome] IN
          CASE outcome = "ok" ->
                  /\ cur' = c
                  /\ pc' = "fetch_by_id"
                  /\ UNCHANGED <<articles, searchOk, search_id, batches, idx,
                                 results,
                                 failed_pmids, store, metaSave, result>>
                  /\ UNCHANGED <<clockVars, paceVars, batchVars, recVars,
                                 storeVars>>
            [] outcome = "absent" -> MarkFailed(c)
            [] OTHER -> PerIdException(c)

\* fetch_by_id handed the document of the orchestrator's own request: the
\* Article is built from that first response whatever the second one was
FetchByIdXmlReusesFirst ==
    /\ pc = "fetch_by_id"
    /\ \E outcome \in {"ok", "unparsable", "absent", "raise"}, kwNull \in BOOLEAN :
          /\ cur' = [cur EXCEPT !.xml2 = outcome,
                                !.article = Article("xml", kwNull, TRUE)]
          /\ pc' = "to_dict"
          /\ UNCHANGED <<articles, searchOk, search_id, batches, idx, results,
                         failed_pmids, store, metaSave, result>>
          /\ UNCHANGED <<clockVars, paceVars, batchVars, recVars, storeVars>>

\* line 109, client lines 154-160: fetch_by_id requests the XML again and
\* parses it.  A parsed document gives the Article; an absent or unparsable
\* one leads to the fallback search; an exception of fetch_xml is caught by
\* fetch_by_id, which returns None.
FetchByIdXml ==
    /\ pc = "fetch_by_id"
    /\ \E outcome \in {"ok", "unparsable", "absent", "raise"}, kwNull \in BOOLEAN :
          /\ outcome # "ok" => ~kwNull
          /\ LET c == [cur EXCEPT !.xml2 = outcome] IN
             CASE outcome = "ok" ->
                     /\ cur' = [c EXCEPT !.article = Article("xml", kwNull, TRUE)]
                     /\ pc' = "to_dict"
                     /\ UNCHANGED <<articles, searchOk, search_id, batches,
                                    idx, results,
                                    failed_pmids, store, metaSave, result>>
                     /\ UNCHANGED <<clockVars, paceVars, batchVars, recVars,
                                    storeVars>>
               [] outcome \in {"unparsable", "absent"} ->
                     /\ cur' = c
                     /\ pc' = "fallback_search"
                     /\ UNCHANGED <<articles, searchOk, search_id, batches,
                                    idx, results,
                                    failed_pmids, store, metaSave, result>>
                     /\ UNCHANGED <<clockVars, paceVars, batchVars, recVars,
                                    storeVars>>
               [] OTHER -> MarkFailed(c)

\* client lines 162-163: results = await self.search(f"{id}[pmid]", 1);
\* return results[0] if results else None
FetchByIdSearch ==
    /\ pc = "fallback_search"
    /\ \E upstream \in {"hit", "empty", "raise"}, kwNull \in BOOLEAN,
          jsonable \in BOOLEAN :
          /\ upstream # "hit" => (~kwNull /\ jsonable)
          /\ LET c == [cur EXCEPT !.fb = upstream] IN
             IF upstream = "hit"
             THEN /\ cur' = [c EXCEPT !.article =
                                Article("search", kwNull, jsonable)]
                  /\ pc' = "to_dict"
                  /\ UNCHANGED <<articles, searchOk, search_id, batches, idx,
                                 results,
                                 failed_pmids, store, metaSave, result>>
                  /\ UNCHANGED <<clockVars, paceVars, batchVars, recVars,
                                 storeVars>>
             ELSE MarkFailed(c)

\* lines 111-112: _log_article_details(full_article, query), then
\* metadata = full_article.to_dict()
LogAndToDict ==
    /\ pc = "to_dict"
    /\ IF LogArticleDetailsRaises(cur.article)
       THEN PerIdException(cur)
       ELSE /\ pc' = "save_metadata"
            /\ UNCHANGED <<articles, searchOk, search_id, batches, idx, cur,
                           results,
                           failed_pmids, store, metaSave, result>>
            /\ UNCHANGED <<clockVars, paceVars, batchVars, recVars, storeVars>>

metadata == ToDict(cur.article, pmid)

\* the record save whose False counts as a failure of the id
SaveMetadataFailureFails ==
    /\ pc = "save_metadata"
    /\ IF ~metadata.jsonable
       THEN PerIdException([cur EXCEPT !.recSave = "unserialisable"])
       ELSE \E outcome \in SaveOutcomes :
               IF outcome = "fail"
               THEN PerIdException([cur EXCEPT !.recSave = outcome])
               ELSE /\ store' = SaveFile(store, MetadataPath("xml", pmid),
                                         Blob("xml", <<pmid>>, metadata.src),
                                         outcome)
                    /\ cur' = [cur EXCEPT !.recSave = outcome]
                    /\ pc' = "fetch_summary"
                    /\ UNCHANGED <<articles, searchOk, search_id, batches,
                                   idx, results,
                                   failed_pmids, metaSave, result>>
                    /\ UNCHANGED <<clockVars, paceVars, batchVars, recVars,
                                   storeVars>>

\* line 114, _save_metadata lines 197-214: json.dumps raising is caught and
\* gives False, else the result of save_file is returned
SaveMetadata ==
    /\ pc = "save_metadata"
    /\ UNCHANGED <<clockVars, paceVars, batchVars, recVars, storeVars>>
    /\ IF ~metadata.jsonable
       THEN /\ cur' = [cur EXCEPT !.recSave = "unserialisable"]
            /\ store' = store
       ELSE \E outcome \in SaveOutcomes :
               /\ store' = SaveFile(store, MetadataPath("xml", pmid),
                                    Blob("xml", <<pmid>>, metadata.src), outcome)
               /\ cur' = [cur EXCEPT !.recSave = outcome]
    /\ pc' = "fetch_summary"
    /\ UNCHANGED <<articles, searchOk, search_id, batches, idx, results,
                   failed_pmids,
                   metaSave, result>>

\* the summary fetch without its own try: an exception of fetch_summary
\* reaches the per-id handler
FetchSummaryUncaught ==
    /\ pc = "fetch_summary"
    /\ \E outcome \in {"data", "absent", "raise"}, saved \in SaveOutcomes :
          /\ outcome # "data" => saved = "ok"
          /\ CASE outcome = "data" ->
                    /\ store' = SaveFile(store, MetadataPath("summary", pmid),
                                         Blob("summary", <<pmid>>, "esummary"),
                                         saved)
                    /\ cur' = [cur EXCEPT !.sum = outcome, !.sumSave = saved]
                    /\ pc' = "fetch_pdf"
                    /\ UNCHANGED <<articles, searchOk, search_id, batches,
                                   idx, results,
                                   failed_pmids, metaSave, result>>
                    /\ UNCHANGED <<clockVars, paceVars, batchVars, recVars,
                                   storeVars>>
               [] outcome = "absent" ->
                    /\ cur' = [cur EXCEPT !.sum = outcome]
                    /\ pc' = "fetch_pdf"
                    /\ UNCHANGED <<articles, searchOk, search_id, batches,
                                   idx, results,
                                   failed_pmids, store, metaSave, result>>
                    /\ UNCHANGED <<clockVars, paceVars, batchVars, recVars,
                                   storeVars>>
               [] OTHER -> PerIdException([cur EXCEPT !.sum = outcome])

\* lines 118-126: the summary fetch and its save, inside their own try
FetchSummary ==
    /\ pc = "fetch_summary"
    /\ UNCHANGED <<clockVars, paceVars, batchVars, recVars, storeVars>>
    /\ \E outcome \in {"data", "absent", "raise"}, saved \in SaveOutcomes :
          /\ outcome # "data" => saved = "ok"
          /\ IF outcome = "data"
             THEN /\ store' = SaveFile(store, MetadataPath("summary", pmid),
                                       Blob("summary", <<pmid>>, "esummary"),
                                       saved)
                  /\ cur' = [cur EXCEPT !.sum = outcome, !.sumSave = saved]
             ELSE /\ store' = store
                  /\ cur' = [cur EXCEPT !.sum = outcome]
    /\ pc' = "fetch_pdf"
    /\ UNCHANGED <<articles, searchOk, search_id, batches, idx, results,
                   failed_pmids,
                   metaSave, result>>

\* fetch_pdf without its try: an error of the PDF fetch reaches the per-id
\* handler after the record was saved
FetchPdfUncaught ==
    /\ pc = "fetch_pdf"
    /\ \E outcome \in {"data", "absent", "error"}, saved \in SaveOutcomes :
          /\ outcome # "data" => saved = "ok"
          /\ CASE outcome = "data" ->
                    /\ store' = SaveFile(store, PdfPath(pmid),
                                         Blob("pdf", <<pmid>>, "pmc"), saved)
                    /\ cur' = [cur EXCEPT !.pdf = outcome, !.pdfSave = saved,
                                          !.status = "ok"]
                    /\ results' = Append(results, metadata)
                    /\ pc' = "next"
                    /\ UNCHANGED <<articles, searchOk, search_id, batches, idx,
                                   failed_pmids, metaSave, result>>
                    /\ UNCHANGED <<clockVars, paceVars, batchVars, recVars,
                                   storeVars>>
               [] outcome = "absent" ->
                    /\ cur' = [cur EXCEPT !.pdf = outcome, !.status = "ok"]
                    /\ results' = Append(results, metadata)
                    /\ pc' = "next"
                    /\ UNCHANGED <<articles, searchOk, search_id, batches, idx,
                                   failed_pmids, store, metaSave, result>>
                    /\ UNCHANGED <<clockVars, paceVars, batchVars, recVars,
                                   storeVars>>
               [] OTHER -> PerIdException([cur EXCEPT !.pdf = outcome])

\* lines 128-137: the PDF fetch (it returns the bytes or None, every
\* exception is caught inside fetch_pdf), its save, and
\* results.append(metadata)
FetchPdf ==
    /\ pc = "fetch_pdf"
    /\ UNCHANGED <<clockVars, paceVars, batchVars, recVars, storeVars>>
    /\ \E outcome \in {"data", "absent", "error"}, saved \in SaveOutcomes :
          /\ outcome # "data" => saved = "ok"
          /\ IF outcome = "data"
             THEN /\ store' = SaveFile(store, PdfPath(pmid),
                                       Blob("pdf", <<pmid>>, "pmc"), saved)
                  /\ cur' = [cur EXCEPT !.pdf = outcome, !.pdfSave = saved,
                                        !.status = "ok"]
             ELSE /\ store' = store
                  /\ cur' = [cur EXCEPT !.pdf = outcome, !.status = "ok"]
    /\ results' = Append(results, metadata)
    /\ pc' = "next"
    /\ UNCHANGED <<articles, searchOk, search_id, batches, idx, failed_pmids,
                   metaSave,
                   result>>

\* line 102: the for loop takes the next search result
NextArticle ==
    /\ pc = "next"
    /\ UNCHANGED <<clockVars, paceVars, batchVars, recVars, storeVars>>
    /\ IF idx < Len(articles)
       THEN /\ idx' = idx + 1
            /\ cur' = FreshCur
            /\ pc' = "fetch_xml"
       ELSE /\ pc' = "summarize"
            /\ UNCHANGED <<idx, cur>>
    /\ UNCHANGED <<articles, searchOk, search_id, batches, results,
                   failed_pmids, store,
                   metaSave, result>>

\* json.dumps(summary) raises when a payload in `articles` is not serialisable
SummaryDumpRaises(res) == \E k \in DOMAIN res : ~res[k].jsonable

\* lines 146-171: the summary is built, saved and returned; an exception of
\* json.dumps reaches the outer handler, which returns the error result
Summarize ==
    /\ pc = "summarize"
    /\ UNCHANGED <<clockVars, paceVars, batchVars, recVars, storeVars>>
    /\ IF SummaryDumpRaises(results)
       THEN /\ result' = ErrorResult
            /\ store' = store
       ELSE /\ result' = Summary(search_id, articles, results, failed_pmids)
            /\ \E outcome \in SaveOutcomes :
                  store' = SaveFile(store, SearchSummaryPath(search_id),
                                    [Blob("batch_summary", failed_pmids, "none")
                                        EXCEPT !.at = Isoformat(now)],
                                    outcome)
    /\ pc' = "done"
    /\ UNCHANGED <<articles, searchOk, search_id, batches, idx, cur, results,
                   failed_pmids, metaSave>>

(***************************************************************************)
(* The pacing decorator (rate_limit) and the rate-limited operations       *)
(***************************************************************************)
Ops == {"search", "fetch_by_id", "fetch_pdf", "fetch_xml", "fetch_summary"}

\* the delay each operation passes to the decorator
DecoratorDelay(op) == IF op = "fetch_pdf" THEN PdfDelay ELSE DefaultDelay

\* PubMedClient.__init__ sets self.request_delay, so hasattr(args[0],
\* 'request_delay') holds for every method of a client
ClientHasRequestDelay == TRUE

\* wrapper, lines 64-66: the interval the gate applies
InstanceDelay(op, hasAttr, instanceValue) ==
    IF hasAttr THEN instanceValue ELSE DecoratorDelay(op)

AppliedDelay(op) == InstanceDelay(op, ClientHasRequestDelay, request_delay)

\* wrapper, lines 68-72: how long the gate sleeps (0: it does not)
SleepTime(op, current_time) ==
    LET time_since_last == current_time - last_call[op] IN
    IF time_since_last < AppliedDelay(op)
    THEN AppliedDelay(op) - time_since_last
    ELSE 0

\* a call in progress
Frame(op, phase, wake) == [op |-> op, phase |-> phase, wake |-> wake]

Top == stack[Len(stack)]

\* the phase in which the body of an operation starts
BodyPhase(op) == IF op = "fetch_by_id" THEN "by_id_start" ELSE "body"

\* a gate that is held until the call returns: no call starts inside another
CallableOneAtATime(op) == stack = <<>>

\* the operations the sequential caller may invoke now: any of them from the
\* top level; fetch_xml and then search from inside fetch_by_id
Callable(op) ==
    \/ stack = <<>>
    \/ /\ stack # <<>>
       /\ Top.op = "fetch_by_id"
       /\ \/ Top.phase = "by_id_start" /\ op = "fetch_xml"
          \/ Top.phase = "by_id_after_xml" /\ op = "search"

\* the underlying call of op starts now
StartUnderlying(op, at) ==
    lastStart' = [op |-> op, at |-> at, prevOp |-> prevCall.op,
                  prevEnd |-> prevCall.at, delay |-> AppliedDelay(op)]

\* wrapper, lines 61-75, up to the first await: the gate is evaluated; it
\* either goes to sleep or records the call time and starts the body
GateCall(op) ==
    /\ Callable(op)
    /\ nCalls' = nCalls + 1
    /\ IF SleepTime(op, now) > 0
       THEN /\ stack' = Append(stack, Frame(op, "sleep", now + SleepTime(op, now)))
            /\ UNCHANGED <<last_call, lastStart>>
       ELSE /\ last_call' = [last_call EXCEPT ![op] = now]
            /\ stack' = Append(stack, Frame(op, BodyPhase(op), 0))
            /\ StartUnderlying(op, now)
    /\ UNCHANGED <<now, request_delay, prevCall>>
    /\ UNCHANGED <<orchVars, batchVars, recVars, storeVars>>

\* one of the calls of the sequential caller
PaceCall(op) == nCalls < MaxCalls /\ GateCall(op)

\* wrapper, lines 72-75: asyncio.sleep returns, not before the time asked
\* for; last_call = time.time(); the body starts
PaceWake ==
    /\ stack # <<>>
    /\ Top.phase = "sleep"
    /\ \E late \in 0..1 :
          LET t == (IF now > Top.wake THEN now ELSE Top.wake) + late IN
          /\ now' = t
          /\ last_call' = [last_call EXCEPT ![Top.op] = t]
          /\ StartUnderlying(Top.op, t)
    /\ stack' = Append(SubSeq(stack, 1, Len(stack) - 1),
                       Frame(Top.op, BodyPhase(Top.op), 0))
    /\ UNCHANGED <<request_delay, nCalls, prevCall>>
    /\ UNCHANGED <<orchVars, batchVars, recVars, storeVars>>

\* the stack after the innermost call returned: fetch_by_id moves on
Returned ==
    IF Len(stack) > 1
    THEN LET below == stack[Len(stack) - 1] IN
         Append(SubSeq(stack, 1, Len(stack) - 2),
                Frame(below.op,
                      IF below.phase = "by_id_start" THEN "by_id_after_xml"
                      ELSE "by_id_after_search",
                      0))
    ELSE <<>>

\* the body of search, fetch_xml, fetch_summary or fetch_pdf takes some time
\* and returns
LeafReturn ==
    /\ stack # <<>>
    /\ Top.phase = "body"
    /\ \E dur \in 0..MaxDur :
          /\ now' = now + dur
          /\ prevCall' = [op |-> Top.op, at |-> now + dur]
    /\ stack' = Returned
    /\ UNCHANGED <<last_call, request_delay, nCalls, lastStart>>
    /\ UNCHANGED <<orchVars, batchVars, recVars, storeVars>>

\* client lines 156-166: fetch_by_id returns, after the XML was parsed or
\* after the fallback search
ByIdReturn ==
    /\ stack # <<>>
    /\ Top.phase \in {"by_id_after_xml", "by_id_after_search"}
    /\ prevCall' = [op |-> Top.op, at |-> now]
    /\ stack' = Returned
    /\ UNCHANGED <<now, last_call, request_delay, nCalls, lastStart>>
    /\ UNCHANGED <<orchVars, batchVars, recVars, storeVars>>

\* time passes between two calls of the sequential caller
Idle ==
    /\ stack = <<>>
    /\ nCalls < MaxCalls
    /\ now < MaxTime
    /\ now' = now + 1
    /\ UNCHANGED <<last_call, request_delay>>
    /\ UNCHANGED <<paceVars, orchVars, batchVars, recVars, storeVars>>

\* a clock long past the epoch: the first call of an operation never sleeps
InitClock ==
    /\ now = MaxDelay
    /\ last_call = [op \in Ops |-> 0]

InitPaceIdle ==
    /\ stack = <<>>
    /\ nCalls = 0
    /\ prevCall = [op |-> "none", at |-> 0]
    /\ lastStart = [op |-> "none", at |-> 0, prevOp |-> "none", prevEnd |-> 0,
                    delay |-> 0]

InitBatchIdle ==
    /\ article_ids = <<>>
    /\ tasks = <<>>
    /\ batchResult = [kind |-> "none"]

\* no call of _parse_date, of a constructor or of to_dict has been made
NotCalled == [kind |-> "not_called"]

\* no date element and no upstream record are at hand
NoInput == [present |-> FALSE]

(***************************************************************************)
(* One call of LocalStorage.save_file                                      *)
(***************************************************************************)
\* no file is at a path
NoFile == [kind |-> "no_file"]

\* a file and its bytes
File(bytes) == [kind |-> "file", bytes |-> bytes]

\* the relative paths save_file is called with
StorePaths == {MetadataPath("xml", 1), PdfPath(1)}

\* save_file without its handler: an exception of mkdir, open or write
\* reaches the caller
SaveFileUncaught(fs, relative_path, content, failing, written) ==
    [files  |-> fs,
     result |-> IF failing = "none" THEN [kind |-> "returned", value |-> TRUE]
                ELSE [kind |-> "raised", exc |-> "OSError"]]

\* save_file, lines 108-121: the files after the call and what the call
\* returned.  `failing` is the step that raised OSError, if any: mkdir and
\* open leave the files as they were (open(path, 'wb') truncates only when
\* it succeeds); write, or the flush at the end of the with block, leaves
\* the first `written` bytes in the file that open emptied.  The handler
\* catches every Exception and returns False.
SaveFileResult(fs, relative_path, content, failing, written) ==
    CASE failing = "none" ->
           [files  |-> [fs EXCEPT ![relative_path] = File(content)],
            result |-> [kind |-> "returned", value |-> TRUE]]
      [] failing = "write" ->
           [files  |-> [fs EXCEPT ![relative_path] =
                                     File(SubSeq(content, 1, written))],
            result |-> [kind |-> "returned", value |-> FALSE]]
      [] OTHER ->
           [files  |-> fs,
            result |-> [kind |-> "returned", value |-> FALSE]]

\* one call of save_file(content, relative_path)
SaveFileCall ==
    \E relative_path \in StorePaths,
       content \in UNION {[1..n -> {"a", "b"}] : n \in 0..MaxBytes},
       failing \in {"none", "mkdir", "open", "write"} :
       \E written \in IF failing = "write" THEN 0..Len(content) ELSE {0} :
          LET r == SaveFileResult(files, relative_path, content, failing,
                                  written)
          IN  /\ files' = r.files
              /\ save_call' = [kind          |-> "called",
                               relative_path |-> relative_path,
                               content       |-> content,
                               previous      |-> files[relative_path],
                               result        |-> r.result]
              /\ UNCHANGED <<orchVars, clockVars, paceVars, batchVars,
                             recVars>>

InitRecIdle ==
    /\ date_elem = NoInput
    /\ parsed_date = NotCalled
    /\ raw_record = NoInput
    /\ parsed_xml = NotCalled
    /\ best_date = NotCalled
    /\ reconciled = NotCalled
    /\ serialized = NotCalled

InitPace ==
    /\ InitClock
    /\ request_delay \in 1..MaxDelay
    /\ InitPaceIdle
    /\ InitBatchIdle
    /\ InitOrch
    /\ InitRecIdle
    /\ files = [path \in StorePaths |-> NoFile]
    /\ save_call = NotCalled

NextPace ==
    \/ \E op \in Ops : PaceCall(op)
    \/ PaceWake
    \/ LeafReturn
    \/ ByIdReturn
    \/ Idle

SpecPace == InitPace /\ [][NextPace]_vars

(***************************************************************************)
(* batch_fetch_pdfs: one fetch_pdf task per id, run by asyncio.gather      *)
(***************************************************************************)
\* line 288: one fetch_pdf coroutine per id, not started yet
NewTask(id) ==
    [pmid |-> id, phase |-> "new", wake |-> 0, observed |-> 0, start |-> 0,
     outcome |-> "pending"]

TaskIds == DOMAIN tasks

Started(t) == tasks[t].phase \in {"http", "done"}

\* fetch_pdf lines 191-205, run without a suspension point right after the
\* gate: Entrez.elink and Entrez.read block the event loop for dur ticks;
\* without a PMC link (or on an exception, caught) the call returns None at
\* once, else it goes on to the awaited HTTP request
AfterGate(t, observed, at, dur, linkFound) ==
    [tasks EXCEPT ![t] =
        [@ EXCEPT !.observed = observed,
                  !.start = at,
                  !.phase = IF linkFound THEN "http" ELSE "done",
                  !.outcome = IF linkFound THEN "pending" ELSE "none"]]

\* wrapper lines 61-75, first step of a task.  The event loop starts the
\* tasks of a gather in the order they were created.
TaskGate(t) ==
    /\ t \in TaskIds
    /\ tasks[t].phase = "new"
    /\ \A u \in TaskIds : u < t => tasks[u].phase # "new"
    /\ IF SleepTime("fetch_pdf", now) > 0
       THEN /\ tasks' = [tasks EXCEPT ![t] =
                           [@ EXCEPT !.phase = "sleep",
                                     !.wake = now + SleepTime("fetch_pdf", now),
                                     !.observed = last_call["fetch_pdf"]]]
            /\ UNCHANGED <<now, last_call>>
       ELSE \E dur \in 0..MaxDur, linkFound \in BOOLEAN :
               /\ last_call' = [last_call EXCEPT !["fetch_pdf"] = now]
               /\ tasks' = AfterGate(t, last_call["fetch_pdf"], now, dur,
                                     linkFound)
               /\ now' = now + dur
    /\ UNCHANGED <<request_delay, article_ids, batchResult>>
    /\ UNCHANGED <<orchVars, paceVars, recVars, storeVars>>

\* wrapper lines 72-75: the sleep of a task is over; it records the call
\* time and starts the body, without looking at last_call again
TaskWake(t) ==
    /\ t \in TaskIds
    /\ tasks[t].phase = "sleep"
    /\ now >= tasks[t].wake
    /\ \E dur \in 0..MaxDur, linkFound \in BOOLEAN :
          /\ last_call' = [last_call EXCEPT !["fetch_pdf"] = now]
          /\ tasks' = AfterGate(t, tasks[t].observed, now, dur, linkFound)
          /\ now' = now + dur
    /\ UNCHANGED <<request_delay, article_ids, batchResult>>
    /\ UNCHANGED <<orchVars, paceVars, recVars, storeVars>>

\* fetch_pdf lines 213-228: the HTTP request ends with the bytes, or with
\* None (unexpected status, or an exception caught by `except Exception`), or
\* with an exception that handler does not catch (the task was cancelled)
TaskHttp(t) ==
    /\ t \in TaskIds
    /\ tasks[t].phase = "http"
    /\ \E outcome \in {"pdf", "none", "exc"} :
          tasks' = [tasks EXCEPT ![t] =
                       [@ EXCEPT !.phase = "done", !.outcome = outcome]]
    /\ UNCHANGED <<clockVars, article_ids, batchResult, recVars, storeVars>>
    /\ UNCHANGED <<orchVars, paceVars, recVars, storeVars>>

\* time passes while the event loop has nothing to run: every task has been
\* started, and the sleeping ones are not due yet
Tick ==
    /\ \E t \in TaskIds : tasks[t].phase = "sleep"
    /\ \A t \in TaskIds :
          /\ tasks[t].phase # "new"
          /\ tasks[t].phase = "sleep" => tasks[t].wake > now
    /\ now' = now + 1
    /\ UNCHANGED <<last_call, request_delay>>
    /\ UNCHANGED <<batchVars, orchVars, paceVars, recVars, storeVars>>

\* dict(zip(article_ids, results)): a later pair replaces an earlier one
\* with the same key
DictZip(ids, ts) ==
    [k \in Range(ids) |->
        LET lastIdx == CHOOSE a \in DOMAIN ids :
                          /\ ids[a] = k
                          /\ \A b \in DOMAIN ids : ids[b] = k => b <= a
        IN ts[lastIdx].outcome]

\* gather without return_exceptions: the first exception of a task is raised
\* to the caller at once, while the other tasks are still running
GatherFirstException ==
    /\ batchResult.kind = "none"
    /\ \/ /\ \E t \in TaskIds : tasks[t].outcome = "exc"
          /\ batchResult' = [kind |-> "raised"]
       \/ /\ \A t \in TaskIds : tasks[t].phase = "done" /\ tasks[t].outcome # "exc"
          /\ batchResult' = [kind |-> "mapping",
                             map |-> DictZip(article_ids, tasks)]
    /\ UNCHANGED <<clockVars, article_ids, tasks, recVars, storeVars>>
    /\ UNCHANGED <<orchVars, paceVars, recVars, storeVars>>

\* lines 289-290: gather(*tasks, return_exceptions=True) returns when every
\* task has finished, an exception of a task being its result
Gather ==
    /\ batchResult.kind = "none"
    /\ \A t \in TaskIds : tasks[t].phase = "done"
    /\ batchResult' = [kind |-> "mapping", map |-> DictZip(article_ids, tasks)]
    /\ UNCHANGED <<clockVars, article_ids, tasks, recVars, storeVars>>
    /\ UNCHANGED <<orchVars, paceVars, recVars, storeVars>>

\* batch_fetch_pdfs was called on a client that never fetched a PDF, or that
\* has just fetched one
InitBatch ==
    /\ now = MaxDelay
    /\ \E recent \in {0, MaxDelay} :
          last_call = [op \in Ops |-> IF op = "fetch_pdf" THEN recent ELSE 0]
    /\ request_delay \in 1..MaxDelay
    /\ article_ids \in UNION {[1..n -> Pmids] : n \in 0..MaxTasks}
    /\ tasks = [t \in DOMAIN article_ids |-> NewTask(article_ids[t])]
    /\ batchResult = [kind |-> "none"]
    /\ InitPaceIdle
    /\ InitOrch
    /\ InitRecIdle
    /\ files = [path \in StorePaths |-> NoFile]
    /\ save_call = NotCalled

NextBatch ==
    \/ \E t \in 1..MaxTasks : TaskGate(t)
    \/ \E t \in 1..MaxTasks : TaskWake(t)
    \/ \E t \in 1..MaxTasks : TaskHttp(t)
    \/ Tick
    \/ Gather

SpecBatch == InitBatch /\ [][NextBatch]_vars

(***************************************************************************)
(* Partial dates (PubMedXMLParser._parse_date)                             *)
(***************************************************************************)
\* the characters a node text is made of: three digits and a letter
TextChars == {"0", "1", "3", "x"}

\* element.text of a node without text is None (ElementTree never yields
\* the empty string): the empty sequence stands for None
NoneText == <<>>

\* what element.find(tag) returns: None, or a node with its text
NoNode == [present |-> FALSE, text |-> NoneText]

Node(text) == [present |-> TRUE, text |-> text]

\* the nodes: none, one without text, and one with each non-empty text of
\* at most MaxText characters
Nodes ==
    {NoNode, Node(NoneText)}
    \cup {Node(t) : t \in UNION {[1..n -> TextChars] : n \in 1..MaxText}}

\* the arguments of _parse_date: None, or an element with its Year, Month
\* and Day children
DateElem(year, month, day) ==
    [present |-> TRUE, Year |-> year, Month |-> month, Day |-> day]

DateElems == [present : {TRUE}, Year : Nodes, Month : Nodes, Day : Nodes]

\* str.isdigit() over TextChars
IsDigit(text) ==
    /\ text # <<>>
    /\ \A k \in DOMAIN text :
          text[k] \in {"0", "1", "2", "3", "4", "5", "6", "7", "8", "9"}

\* the value of a text of decimal digits
RECURSIVE DecimalValue(_)
DecimalValue(text) ==
    LET c == text[Len(text)]
        digit == CASE c = "0" -> 0 [] c = "1" -> 1 [] c = "2" -> 2
                   [] c = "3" -> 3 [] c = "4" -> 4 [] c = "5" -> 5
                   [] c = "6" -> 6 [] c = "7" -> 7 [] c = "8" -> 8
                   [] c = "9" -> 9
    IN  IF text = <<>> THEN 0
        ELSE 10 * DecimalValue(SubSeq(text, 1, Len(text) - 1)) + digit

\* int(text): the value, or the exception raised (TypeError for None,
\* ValueError for a text that is no number)
IntOf(text) ==
    IF text = NoneText THEN [kind |-> "raised", exc |-> "TypeError"]
    ELSE IF IsDigit(text) THEN [kind |-> "int", val |-> DecimalValue(text)]
    ELSE [kind |-> "raised", exc |-> "ValueError"]

\* the days of a month of the calendar datetime uses
DaysInMonth(year, month) ==
    LET leap == year % 4 = 0 /\ (year % 100 # 0 \/ year % 400 = 0)
    IN  IF month = 2 THEN (IF leap THEN 29 ELSE 28)
        ELSE IF month \in {4, 6, 9, 11} THEN 30 ELSE 31

Null == [kind |-> "null"]

Raised(exc) == [kind |-> "raised", exc |-> exc]

Date(year, month, day) ==
    [kind |-> "date", year |-> year, month |-> month, day |-> day]

\* datetime(year, month, day): the date, or ValueError
Datetime(year, month, day) ==
    IF /\ year \in 1..9999
       /\ month \in 1..12
       /\ day \in 1..DaysInMonth(year, month)
    THEN Date(year, month, day)
    ELSE Raised("ValueError")

\* `int(n.text) if n is not None and n.text.isdigit() else 1`: n.text.isdigit
\* raises AttributeError when n.text is None
IntOrOne(n) ==
    IF ~n.present THEN [kind |-> "int", val |-> 1]
    ELSE IF n.text = NoneText THEN Raised("AttributeError")
    ELSE IF IsDigit(n.text) THEN IntOf(n.text)
    ELSE [kind |-> "int", val |-> 1]

\* _parse_date.  The first exception raised ends the body of the try,
\* lines 67-72; the handler catches ValueError and AttributeError, and
\* TypeError is not among the exceptions it catches.
ParseDate(elem) ==
    IF ~elem.present THEN Null
    ELSE IF ~elem.Year.present THEN Null
    ELSE LET year_val  == IntOf(elem.Year.text)
             month_val == IntOrOne(elem.Month)
             day_val   == IntOrOne(elem.Day)
             r == IF year_val.kind = "raised" THEN year_val
                  ELSE IF month_val.kind = "raised" THEN month_val
                  ELSE IF day_val.kind = "raised" THEN day_val
                  ELSE Datetime(year_val.val, month_val.val, day_val.val)
         IN  IF r.kind = "raised" /\ r.exc \in {"ValueError", "AttributeError"}
             THEN Null
             ELSE r

\* one call of _parse_date
ParseDateCall ==
    /\ parsed_date = NotCalled
    /\ parsed_date' = ParseDate(date_elem)
    /\ UNCHANGED <<date_elem, raw_record, parsed_xml, best_date, reconciled,
                   serialized>>
    /\ UNCHANGED <<orchVars, clockVars, paceVars, batchVars, storeVars>>

InitDate ==
    /\ date_elem \in {NoInput} \cup DateElems
    /\ parsed_date = NotCalled
    /\ raw_record = NoInput
    /\ parsed_xml = NotCalled
    /\ best_date = NotCalled
    /\ reconciled = NotCalled
    /\ serialized = NotCalled
    /\ InitOrch
    /\ InitClock
    /\ request_delay = MaxDelay
    /\ InitPaceIdle
    /\ InitBatchIdle
    /\ files = [path \in StorePaths |-> NoFile]
    /\ save_call = NotCalled

SpecDate == InitDate /\ [][ParseDateCall]_vars

(***************************************************************************)
(* The citation document and its parser (PubMedXMLParser)                  *)
(***************************************************************************)
\* None where a string may stand; no text of a document equals it
None == "<None>"

\* `x or None` for a string x
OrNone(x) == IF x = "" THEN None ELSE x

\* _get_text(element, xpath) for an element that is not None, given the
\* text of the first match (None when nothing matches or the match has no
\* text)
GetText(text) == IF text = None THEN "" ELSE text

\* the sequences over S of length at most n
SeqUpTo(S, n) == UNION {[1..k -> S] : k \in 0..n}

\* parse_grants: one dictionary for each Grant element
ParseGrants(article_elem) ==
    LET grant_list == article_elem.GrantList
    IN  IF grant_list.present
        THEN [k \in DOMAIN grant_list.Grant |->
                 LET grant_elem == grant_list.Grant[k]
                 IN  [grant_id |-> GetText(grant_elem.GrantID),
                      acronym  |-> GetText(grant_elem.Acronym),
                      agency   |-> GetText(grant_elem.Agency),
                      country  |-> GetText(grant_elem.Country)]]
        ELSE <<>>

\* a scan that keeps the first ArticleId of a type
ScanArticleIdsFirstWins(ids, id_type, kept) ==
    LET found == {k \in DOMAIN ids : ids[k].IdType = id_type}
    IN  IF found = {} THEN kept
        ELSE ids[CHOOSE k \in found : \A j \in found : k <= j].text

\* lines 137-144: the value kept for one identifier type, the last
\* ArticleId of that type winning
RECURSIVE ScanArticleIds(_, _, _)
ScanArticleIds(ids, id_type, kept) ==
    IF ids = <<>> THEN kept
    ELSE ScanArticleIds(Tail(ids), id_type,
                        IF Head(ids).IdType = id_type
                        THEN Head(ids).text ELSE kept)

\* parse_references: one dictionary for each Reference element
ParseReferences(article_elem) ==
    LET ref_list == article_elem.ReferenceList
    IN  IF ref_list.present
        THEN [k \in DOMAIN ref_list.Reference |->
                 LET ref_elem == ref_list.Reference[k]
                     ids == IF ref_elem.ArticleIdList.present
                            THEN ref_elem.ArticleIdList.ArticleId ELSE <<>>
                 IN  [citation |-> GetText(ref_elem.Citation),
                      pmid     |-> ScanArticleIds(ids, "pubmed", None),
                      doi      |-> ScanArticleIds(ids, "doi", None),
                      pmc_id   |-> ScanArticleIds(ids, "pmc", None)]]
        ELSE <<>>

\* parse_authors: one PubMedAuthor for each Author element, its affiliations
\* the texts of the Affiliation nodes that have one
ParseAuthors(article_elem) ==
    LET author_list == article_elem.AuthorList
    IN  IF author_list.present
        THEN [k \in DOMAIN author_list.Author |->
                 LET author_elem == author_list.Author[k]
                 IN  [last_name    |-> GetText(author_elem.LastName),
                      fore_name    |-> OrNone(GetText(author_elem.ForeName)),
                      initials     |-> OrNone(GetText(author_elem.Initials)),
                      affiliations |->
                          SelectSeq(author_elem.Affiliation,
                                    LAMBDA text : text # None)]]
        ELSE <<>>

\* PubMedJournal(title, iso_abbreviation, issn, volume, issue)
PubMedJournal(title, iso_abbreviation, issn, volume, issue) ==
    [title |-> title, iso_abbreviation |-> iso_abbreviation, issn |-> issn,
     volume |-> volume, issue |-> issue]

\* parse_journal
ParseJournal(article_elem) ==
    LET journal_elem == article_elem.Journal
    IN  IF ~journal_elem.present
        THEN PubMedJournal("Unknown Journal", None, None, None, None)
        ELSE PubMedJournal(GetText(journal_elem.Title),
                           OrNone(GetText(journal_elem.ISOAbbreviation)),
                           OrNone(GetText(journal_elem.ISSN)),
                           OrNone(GetText(journal_elem.Volume)),
                           OrNone(GetText(journal_elem.Issue)))

\* PubMedDates(completed, revised, electronic_pub, pub_date)
PubMedDates(completed, revised, electronic_pub, pub_date) ==
    [completed |-> completed, revised |-> revised,
     electronic_pub |-> electronic_pub, pub_date |-> pub_date]

\* the names of the four dates, in the order of the fields of PubMedDates
DateNames == <<"completed", "revised", "electronic_pub", "pub_date">>

\* parse_dates: the four dates, or the exception of the first _parse_date
\* call that raised (the arguments are evaluated in the order written)
ParseDates(article_elem) ==
    LET d == PubMedDates(ParseDate(article_elem.DateCompleted),
                         ParseDate(article_elem.DateRevised),
                         ParseDate(article_elem.ArticleDate),
                         ParseDate(article_elem.PubDate))
        raising == {k \in DOMAIN DateNames : d[DateNames[k]].kind = "raised"}
    IN  IF raising = {} THEN [kind |-> "dates", dates |-> d]
        ELSE d[DateNames[CHOOSE k \in raising : \A j \in raising : k <= j]]

\* datetime.isoformat(): the text 'YYYY-MM-DDT00:00:00' of a date
IsoFormat(d) == [kind |-> "iso", year |-> d.year, month |-> d.month,
                 day |-> d.day]

\* lines 312-313: {k: v.isoformat() if v else None for k, v in ...}
IsoDates(dates) ==
    [k \in DOMAIN dates |->
        IF dates[k].kind = "date" THEN IsoFormat(dates[k]) ELSE Null]

\* parse_pubmed_article for a well-formed document: the dictionary, or the
\* exception raised.  Without a MedlineCitation, medline_citation.find at
\* line 298 is a call on None; without an Article, article_elem.find at line
\* 211 is.
ParsePubmedArticle(doc) ==
    IF ~doc.PubmedArticle THEN Raised("ValueError")
    ELSE IF ~doc.MedlineCitation THEN Raised("AttributeError")
    ELSE IF ~doc.Article THEN Raised("AttributeError")
    ELSE LET journal == ParseJournal(doc)
             authors == ParseAuthors(doc)
             dates   == ParseDates(doc)
             grants  == ParseGrants(doc)
             references == ParseReferences(doc)
             \* lines 320-334: the MeshHeading elements with a DescriptorName
             described == SelectSeq(doc.MeshHeading,
                                    LAMBDA mh : mh.DescriptorName.present)
             Qualifiers(mh) ==
                 [k \in DOMAIN mh.QualifierName |->
                     [name        |-> mh.QualifierName[k].text,
                      major_topic |-> mh.QualifierName[k].MajorTopicYN = "Y"]]
         IN  IF dates.kind = "raised" THEN dates
             ELSE [kind              |-> "dict",
                   pmid              |-> GetText(doc.PMID),
                   title             |-> GetText(doc.ArticleTitle),
                   abstract          |-> GetText(doc.AbstractText),
                   journal           |-> journal,
                   authors           |-> authors,
                   dates             |-> IsoDates(dates.dates),
                   publication_types |-> doc.PublicationType,
                   keywords          |-> doc.Keyword,
                   mesh_headings     |->
                       [k \in DOMAIN described |->
                           [descriptor  |-> described[k].DescriptorName.text,
                            major_topic |->
                                described[k].DescriptorName.MajorTopicYN = "Y",
                            qualifiers  |-> Qualifiers(described[k])]],
                   grants            |-> grants,
                   references        |-> references,
                   chemicals         |->
                       [k \in DOMAIN doc.Chemical |->
                           [registry_number |->
                                GetText(doc.Chemical[k].RegistryNumber),
                            substance_name  |->
                                GetText(doc.Chemical[k].NameOfSubstance)]]]

(***************************************************************************)
(* The citation documents                                                  *)
(***************************************************************************)
\* the text of a node: None (no node, or no text), or this text
TextOpts(t) == {None, t}

NoJournal ==
    [present |-> FALSE, Title |-> None, ISOAbbreviation |-> None,
     ISSN |-> None, Volume |-> None, Issue |-> None]

\* the date blocks of a document: none, or a block whose Year is absent,
\* without text, 1 or 3, whose Month is absent or 13, and without a Day
DateFragments ==
    {NoInput}
    \cup {DateElem(y, m, NoNode) :
             y \in {NoNode, Node(NoneText), Node(<<"1">>), Node(<<"3">>)},
             m \in {NoNode, Node(<<"1", "3">>)}}

\* a document with the three wrapper elements and nothing else
EmptyDoc ==
    [present |-> TRUE, shape |-> "xml",
     PubmedArticle |-> TRUE, MedlineCitation |-> TRUE, Article |-> TRUE,
     PMID |-> None, ArticleTitle |-> None, AbstractText |-> None,
     Journal |-> NoJournal,
     AuthorList |-> [present |-> FALSE, Author |-> <<>>],
     DateCompleted |-> NoInput, DateRevised |-> NoInput,
     ArticleDate |-> NoInput, PubDate |-> NoInput,
     PublicationType |-> <<>>, Keyword |-> <<>>, MeshHeading |-> <<>>,
     GrantList |-> [present |-> FALSE, Grant |-> <<>>],
     ReferenceList |-> [present |-> FALSE, Reference |-> <<>>],
     Chemical |-> <<>>]

\* a document with one element of every kind
FullDoc ==
    [present |-> TRUE, shape |-> "xml",
     PubmedArticle |-> TRUE, MedlineCitation |-> TRUE, Article |-> TRUE,
     PMID |-> "1", ArticleTitle |-> "A title", AbstractText |-> "An abstract",
     Journal |-> [present |-> TRUE, Title |-> "Nature",
                  ISOAbbreviation |-> "Nat", ISSN |-> "0028-0836",
                  Volume |-> "12", Issue |-> "3"],
     AuthorList |-> [present |-> TRUE,
                     Author |-> <<[LastName |-> "Smith", ForeName |-> "John",
                                   Initials |-> "J",
                                   Affiliation |-> <<None, "MIT">>]>>],
     DateCompleted |-> DateElem(Node(<<"3">>), NoNode, NoNode),
     DateRevised |-> DateElem(Node(<<"3">>), NoNode, NoNode),
     ArticleDate |-> DateElem(Node(<<"1">>), NoNode, NoNode),
     PubDate |-> DateElem(Node(<<"1">>), NoNode, NoNode),
     PublicationType |-> <<"Review">>, Keyword |-> <<"k">>,
     MeshHeading |-> <<[DescriptorName |-> [present |-> TRUE,
                                            text |-> "Humans",
                                            MajorTopicYN |-> "Y"],
                        QualifierName |-> <<>>]>>,
     GrantList |-> [present |-> TRUE,
                    Grant |-> <<[GrantID |-> "R01", Acronym |-> None,
                                 Agency |-> "NIH", Country |-> None]>>],
     ReferenceList |-> [present |-> TRUE,
                        Reference |-> <<[Citation |-> "Smith 2020",
                                         ArticleIdList |->
                                            [present |-> FALSE,
                                             ArticleId |-> <<>>]]>>],
     Chemical |-> <<[RegistryNumber |-> "0", NameOfSubstance |-> "Water"]>>]

\* the values each field of a document is varied over: a text is missing
\* or there, an element list is missing as a whole or holds up to MaxItems
\* elements (MaxAuthors for the authors)
FieldValues ==
    LET ListElems(tag, elems, n) ==
            {[present |-> FALSE] @@ (tag :> <<>>)}
            \cup {[present |-> TRUE] @@ (tag :> l) : l \in SeqUpTo(elems, n)}
        AuthorElems ==
            [LastName : TextOpts("Smith"), ForeName : TextOpts("John"),
             Initials : TextOpts("J"), Affiliation : {<<None, "MIT">>}]
            \cup {[LastName |-> "Smith", ForeName |-> "John",
                   Initials |-> "J", Affiliation |-> <<>>]}
        GrantElems ==
            [GrantID : TextOpts("R01"), Acronym : {None},
             Agency : TextOpts("NIH"), Country : {None}]
        ArticleIdElems ==
            [IdType : {"pubmed", "doi", "pmc", "pii"}, text : {"id1", "id2"}]
        NoIds == [present |-> FALSE, ArticleId |-> <<>>]
        Ids(l) == [present |-> TRUE, ArticleId |-> l]
        \* references without identifiers, and references with up to
        \* MaxItems + 1 identifiers
        PlainRefs == [Citation : TextOpts("Smith 2020"), ArticleIdList : {NoIds}]
        IdRefs ==
            {[Citation |-> "Smith 2020", ArticleIdList |-> Ids(l)] :
                l \in SeqUpTo(ArticleIdElems, MaxItems + 1)}
        \* two reference blocks with different identifiers
        TwoRefs ==
            <<[Citation |-> "Smith 2020",
               ArticleIdList |-> Ids(<<[IdType |-> "doi", text |-> "id1"],
                                       [IdType |-> "doi", text |-> "id2"]>>)],
              [Citation |-> None,
               ArticleIdList |-> Ids(<<[IdType |-> "pubmed", text |-> "id1"],
                                       [IdType |-> "pii", text |-> "id2"]>>)]>>
        MeshElems ==
            [DescriptorName :
                 {[present |-> FALSE, text |-> None, MajorTopicYN |-> None]}
                 \cup [present : {TRUE}, text : {"Humans"},
                       MajorTopicYN : {None, "Y", "N"}],
             QualifierName :
                 SeqUpTo([text : {"genetics"}, MajorTopicYN : {None, "Y"}],
                         MaxItems)]
    IN  [PMID            |-> TextOpts("1"),
         ArticleTitle    |-> TextOpts("A title"),
         AbstractText    |-> TextOpts("An abstract"),
         Journal         |->
             {NoJournal}
             \cup [present : {TRUE}, Title : TextOpts("Nature"),
                   ISOAbbreviation : TextOpts("Nat"),
                   ISSN : TextOpts("0028-0836"), Volume : TextOpts("12"),
                   Issue : TextOpts("3")],
         AuthorList      |-> ListElems("Author", AuthorElems, MaxAuthors),
         PublicationType |-> SeqUpTo(TextOpts("Review"), MaxItems),
         Keyword         |-> SeqUpTo(TextOpts("k"), MaxItems),
         MeshHeading     |-> SeqUpTo(MeshElems, MaxItems),
         GrantList       |-> ListElems("Grant", GrantElems, MaxItems),
         ReferenceList   |->
             ListElems("Reference", PlainRefs, MaxItems)
             \cup {[present |-> TRUE, Reference |-> <<r>>] : r \in IdRefs}
             \cup {[present |-> TRUE, Reference |-> TwoRefs]},
         Chemical        |->
             SeqUpTo([RegistryNumber : TextOpts("0"),
                      NameOfSubstance : {"Water"}], MaxItems)]

\* the documents: EmptyDoc and FullDoc with one field varied or with the
\* four date blocks varied, and EmptyDoc with wrapper elements left out (an
\* element is not there when the one around it is not)
XmlDocs ==
    UNION {{[base EXCEPT ![f] = v] : v \in FieldValues[f]} :
              base \in {EmptyDoc, FullDoc}, f \in DOMAIN FieldValues}
    \cup {[EmptyDoc EXCEPT !.PubmedArticle = w[1], !.MedlineCitation = w[2],
                           !.Article = w[3], !.PMID = w[4]] :
              w \in {w \in BOOLEAN \X BOOLEAN \X BOOLEAN \X TextOpts("1") :
                        /\ w[3] => w[2]
                        /\ w[2] => w[1]
                        /\ w[4] # None => w[2]}}
    \cup {[base EXCEPT !.DateCompleted = dc, !.DateRevised = dr,
                       !.ArticleDate = ad, !.PubDate = pd] :
              base \in {EmptyDoc, FullDoc}, dc \in DateFragments,
              dr \in DateFragments, ad \in DateFragments,
              pd \in DateFragments}

(***************************************************************************)
(* PubMedArticle: __init__, to_dict and from_xml                           *)
(***************************************************************************)
\* an optional argument that is a list: None, or the list
NoList == <<>>

Given(list) == <<list>>

\* `x or []` for an optional list
OrEmptyList(opt) == IF opt = NoList THEN <<>> ELSE opt[1]

\* bool(x) for a string-or-None x
Truthy(x) == x # None /\ x # ""

\* datetime.now()
Now == [kind |-> "now"]

\* PubMedArticle.__init__ with BaseArticle.__init__: args holds the
\* arguments; a keyword argument left out has its default, None
PubMedArticle(args) ==
    [kind            |-> "article",
     title           |-> args.title,
     abstract        |-> args.abstract,
     authors         |-> args.authors,
     doi             |-> args.doi,
     source_id       |-> args.pmid,
     source_type     |-> "pubmed",
     published_date  |-> args.published_date,
     keywords        |-> args.keywords,
     related_dois    |-> args.related_dois,
     pmid            |-> args.pmid,
     journal         |-> args.journal,
     volume          |-> args.volume,
     issue           |-> args.issue,
     pages           |-> args.pages,
     pubtype         |-> OrEmptyList(args.pubtype),
     author_details  |-> OrEmptyList(args.author_details),
     journal_details |-> args.journal_details,
     dates           |-> args.dates,
     mesh_headings   |-> OrEmptyList(args.mesh_headings),
     grants          |-> OrEmptyList(args.grants),
     references      |-> OrEmptyList(args.references),
     chemicals       |-> OrEmptyList(args.chemicals)]

\* the defaults of the keyword arguments of __init__, lines 63-74
InitDefaults ==
    [journal |-> None, volume |-> None, issue |-> None, pages |-> None,
     pubtype |-> NoList, author_details |-> NoList, journal_details |-> Null,
     dates |-> Null, mesh_headings |-> NoList, grants |-> NoList,
     references |-> NoList, chemicals |-> NoList]

\* PubMedAuthor.get_full_name
GetFullName(author) ==
    IF Truthy(author.fore_name)
    THEN author.last_name \o ", " \o author.fore_name
    ELSE IF Truthy(author.initials)
    THEN author.last_name \o ", " \o author.initials
    ELSE author.last_name

\* the selection with the electronic date tried before the print date
GetBestDateElectronicFirst(dates) ==
    IF dates.electronic_pub # Null THEN dates.electronic_pub
    ELSE IF dates.pub_date # Null THEN dates.pub_date
    ELSE IF dates.completed # Null THEN dates.completed
    ELSE dates.revised

\* PubMedDates.get_best_date: `a or b or c or d`, a date being always true
GetBestDate(dates) ==
    IF dates.pub_date # Null THEN dates.pub_date
    ELSE IF dates.electronic_pub # Null THEN dates.electronic_pub
    ELSE IF dates.completed # Null THEN dates.completed
    ELSE dates.revised

\* from_xml, lines 355-364: the first date text that is not None and that
\* fromisoformat accepts (it raises ValueError for a text that is no ISO
\* date), else now
RECURSIVE PublishedDate(_)
PublishedDate(date_options) ==
    IF date_options = <<>> THEN Now
    ELSE LET date_str == Head(date_options)
             parsed   == IF date_str = Null THEN Null
                         ELSE IF date_str.kind = "iso"
                         THEN Datetime(date_str.year, date_str.month,
                                       date_str.day)
                         ELSE Raised("ValueError")
         IN  IF parsed.kind = "date" THEN parsed
             ELSE PublishedDate(Tail(date_options))

\* from_xml after the call of the parser, lines 341-390: the article built
\* from the dictionary xml_meta (an exception the parser raised is passed
\* on).  The display name of an author is 'last, fore' when there is a fore
\* name and the last name otherwise (lines 341-346); the dates are tried in
\* the order of date_options (lines 349-354).
FromXmlMetadata(xml_meta) ==
    LET AuthorName(author) ==
            IF Truthy(author.fore_name)
            THEN author.last_name \o ", " \o author.fore_name
            ELSE author.last_name
        date_options ==
            <<xml_meta.dates.pub_date, xml_meta.dates.electronic_pub,
              xml_meta.dates.completed, xml_meta.dates.revised>>
    IN  IF xml_meta.kind = "raised" THEN xml_meta
        ELSE PubMedArticle(
                [title           |-> xml_meta.title,
                 abstract        |-> xml_meta.abstract,
                 authors         |->
                     [k \in DOMAIN xml_meta.authors |->
                         AuthorName(xml_meta.authors[k])],
                 doi             |-> None,
                 pmid            |-> xml_meta.pmid,
                 keywords        |-> xml_meta.keywords,
                 related_dois    |-> <<>>,
                 published_date  |-> PublishedDate(date_options),
                 journal         |-> xml_meta.journal.title,
                 volume          |-> xml_meta.journal.volume,
                 issue           |-> xml_meta.journal.issue,
                 pages           |-> None,
                 pubtype         |-> Given(xml_meta.publication_types),
                 author_details  |-> Given(xml_meta.authors),
                 journal_details |-> xml_meta.journal,
                 mesh_headings   |-> Given(xml_meta.mesh_headings),
                 grants          |-> Given(xml_meta.grants),
                 references      |-> Given(xml_meta.references),
                 chemicals       |-> Given(xml_meta.chemicals)]
                @@ InitDefaults)

\* from_xml: the article, or the exception parse_pubmed_article raised
FromXml(xml_content) == FromXmlMetadata(ParsePubmedArticle(xml_content))

\* the keys of a dictionary that has no entries
NoKeys == <<>>

\* BaseArticle.to_dict
BaseArticleToDict(a) ==
    [title |-> a.title, abstract |-> a.abstract, authors |-> a.authors,
     doi |-> a.doi, source_id |-> a.source_id, source_type |-> a.source_type,
     published_date |-> IF a.published_date.kind = "date"
                        THEN IsoFormat(a.published_date)
                        ELSE [kind |-> "iso_now"]]

\* PubMedArticle.to_dict: an extended field is added only when it is true
\* (a list that is not empty, an object that is not None)
PubMedArticleToDict(a) ==
    (IF a.author_details # <<>>
     THEN "author_details" :> a.author_details ELSE NoKeys)
    @@ (IF a.journal_details # Null
        THEN "journal_details" :> a.journal_details ELSE NoKeys)
    @@ (IF a.dates # Null THEN "dates" :> IsoDates(a.dates) ELSE NoKeys)
    @@ (IF a.mesh_headings # <<>>
        THEN "mesh_headings" :> a.mesh_headings ELSE NoKeys)
    @@ (IF a.grants # <<>> THEN "grants" :> a.grants ELSE NoKeys)
    @@ (IF a.references # <<>> THEN "references" :> a.references ELSE NoKeys)
    @@ (IF a.chemicals # <<>> THEN "chemicals" :> a.chemicals ELSE NoKeys)
    @@ [keywords |-> a.keywords, related_dois |-> a.related_dois,
        pmid |-> a.pmid, journal |-> a.journal, volume |-> a.volume,
        issue |-> a.issue, pages |-> a.pages, pubtype |-> a.pubtype]
    @@ BaseArticleToDict(a)

(***************************************************************************)
(* from_esummary                                                           *)
(***************************************************************************)
\* a key a dictionary has no entry for
Missing == "<missing>"

\* dict.get(key, default), given the entry
Get(entry, default) == IF entry = Missing THEN default ELSE entry

\* a date text: its layout ('YYYY/MM/DD HH:MM', 'YYYY Mon', or neither)
\* and the numbers it holds; the empty text has layout "empty"
DateText(layout, year, month, day) ==
    [kind |-> "str", layout |-> layout, year |-> year, month |-> month,
     day |-> day]

EmptyText == DateText("empty", 0, 0, 0)

MissingEntry == [kind |-> "missing"]

\* datetime.strptime(text, format): the date, or ValueError when the text
\* does not have the layout of the format or names no calendar date
Strptime(text, layout) ==
    IF text.kind # "str" THEN Raised("TypeError")
    ELSE IF text.layout # layout THEN Raised("ValueError")
    ELSE Datetime(text.year, text.month, text.day)

\* lines 205-209: the value of the first identifier of type 'doi'
RECURSIVE EsummaryDoi(_)
EsummaryDoi(articleids) ==
    IF articleids = <<>> THEN None
    ELSE IF Head(articleids).idtype = "doi" THEN Head(articleids).value
    ELSE EsummaryDoi(Tail(articleids))

\* from_esummary: `result` is the sequence of the values of
\* summary_data['result'] in the order of the dictionary, empty when the key
\* is missing.  next() of an exhausted iterator raises StopIteration.  The
\* date is sortpubdate, else pubdate, else now (lines 211-219); the authors
\* are the names of the entries that are dictionaries with a name (lines
\* 221-225).
FromEsummary(summary_data) ==
    IF summary_data.result = <<>> THEN Raised("StopIteration")
    ELSE LET article_data == summary_data.result[1]
             sortable == Strptime(IF article_data.sortpubdate = MissingEntry
                                  THEN EmptyText
                                  ELSE article_data.sortpubdate,
                                  "YYYY/MM/DD HH:MM")
             coarse   == Strptime(IF article_data.pubdate = MissingEntry
                                  THEN EmptyText ELSE article_data.pubdate,
                                  "YYYY Mon")
             named    == SelectSeq(article_data.authors,
                                   LAMBDA author : author.isdict
                                                   /\ author.name # Missing)
         IN  IF ~article_data.isdict THEN Raised("ValueError")
             ELSE PubMedArticle(
                     [title          |-> Get(article_data.title,
                                             "No title available"),
                      abstract       |-> "",
                      authors        |->
                          [k \in DOMAIN named |-> named[k].name],
                      doi            |-> EsummaryDoi(article_data.articleids),
                      pmid           |-> Get(article_data.uid,
                                             "No PMID available"),
                      keywords       |-> <<>>,
                      related_dois   |-> <<>>,
                      published_date |->
                          IF sortable.kind = "date" THEN sortable
                          ELSE IF coarse.kind = "date" THEN coarse
                          ELSE Now,
                      journal        |-> Get(article_data.fulljournalname, None),
                      volume         |-> Get(article_data.volume, None),
                      issue          |-> Get(article_data.issue, None),
                      pages          |-> Get(article_data.pages, None),
                      pubtype        |-> article_data.pubtype]
                     @@ InitDefaults)

\* a summary record with no optional entry
EmptyArticleData ==
    [isdict |-> TRUE, title |-> Missing, uid |-> Missing, articleids |-> <<>>,
     sortpubdate |-> MissingEntry, pubdate |-> MissingEntry, authors |-> <<>>,
     fulljournalname |-> Missing, volume |-> Missing, issue |-> Missing,
     pages |-> Missing, pubtype |-> Given(<<>>)]

\* a summary record with every entry
FullArticleData ==
    [isdict |-> TRUE, title |-> "A title", uid |-> "1",
     articleids |-> <<[idtype |-> "pubmed", value |-> "1"],
                      [idtype |-> "doi", value |-> "10.1/a"]>>,
     sortpubdate |-> DateText("YYYY/MM/DD HH:MM", 2020, 1, 15),
     pubdate |-> DateText("YYYY Mon", 2020, 1, 1),
     authors |-> <<[isdict |-> TRUE, name |-> "Smith J"]>>,
     fulljournalname |-> "Nature", volume |-> "12", issue |-> "3",
     pages |-> "1-9", pubtype |-> Given(<<"Journal Article">>)]

\* the summary records: no `result`, a `result` whose first value is no
\* dictionary (the list under 'uids'), and a `result` whose first value is
\* one of the two records above with one entry varied or with both date
\* texts varied.  A text entry is missing, null or a text; pubtype is
\* missing or null, or a list.
Esummaries ==
    LET NotADict == [isdict |-> FALSE]
        DateTexts ==
            {MissingEntry, EmptyText,
             DateText("YYYY/MM/DD HH:MM", 2020, 1, 15),
             DateText("YYYY/MM/DD HH:MM", 2020, 13, 1),
             DateText("YYYY Mon", 2020, 1, 1),
             DateText("other", 2020, 1, 1)}
        ArticleDataValues ==
            [title           |-> {Missing, None, "A title"},
             uid             |-> {Missing, "1"},
             articleids      |-> SeqUpTo([idtype : {"pubmed", "doi"},
                                          value : {"10.1/a"}], MaxItems + 1),
             sortpubdate     |-> DateTexts,
             pubdate         |-> DateTexts,
             authors         |-> SeqUpTo({[isdict |-> FALSE, name |-> Missing],
                                          [isdict |-> TRUE, name |-> Missing],
                                          [isdict |-> TRUE,
                                           name |-> "Smith J"]},
                                         MaxItems + 1),
             fulljournalname |-> {Missing, None, "Nature"},
             pubtype         |-> {NoList, Given(<<>>),
                                  Given(<<"Journal Article">>)}]
        datas ==
          UNION {{[base EXCEPT ![f] = v] : v \in ArticleDataValues[f]} :
                    base \in {EmptyArticleData, FullArticleData},
                    f \in DOMAIN ArticleDataValues}
          \cup {[base EXCEPT !.sortpubdate = a, !.pubdate = b] :
                    base \in {EmptyArticleData, FullArticleData},
                    a \in DateTexts, b \in DateTexts}
    IN  {[present |-> TRUE, shape |-> "esummary", result |-> r] :
            r \in {<<>>, <<NotADict>>, <<NotADict, FullArticleData>>}
                  \cup {<<d>> : d \in datas}}

(***************************************************************************)
(* from_pymed_article                                                      *)
(***************************************************************************)
\* the value of an attribute of the upstream object: the object has no such
\* attribute, or the attribute is None, a text, or a list
NoAttr == [kind |-> "noattr"]

NoneAttr == [kind |-> "none"]

\* a text; s is the text where it is taken whole, tokens are its
\* whitespace-separated parts with the whitespace between them (" ")
StrAttr(s, tokens) == [kind |-> "str", s |-> s, tokens |-> tokens]

ListAttr(items) == [kind |-> "list", items |-> items]

\* bool(value) for the value of an attribute
AttrTruthy(value) ==
    CASE value.kind = "none" -> FALSE
      [] value.kind = "str"  -> value.tokens # <<>>
      [] value.kind = "list" -> value.items # <<>>
      [] OTHER -> TRUE

\* a split that loses the last part
SplitLosesLast(value) ==
    LET parts == SelectSeq(value.tokens, LAMBDA t : t # " ")
    IN  IF parts = <<>> THEN parts ELSE SubSeq(parts, 1, Len(parts) - 1)

\* str.split(): the parts of a text that are not whitespace
Split(value) == SelectSeq(value.tokens, LAMBDA t : t # " ")

\* lines 264-270: `x if x else default`, then the first element of a list
FirstOrDefault(value, default) ==
    IF ~AttrTruthy(value) THEN default
    ELSE IF value.kind = "list" THEN value.items[1]
    ELSE value.s

\* getattr(article, name, default) for a text attribute
GetAttr(value, default) ==
    CASE value.kind = "noattr" -> default
      [] value.kind = "none"   -> None
      [] OTHER                 -> value.s

\* from_pymed_article: the article, or the exception raised.  Reading an
\* attribute the object does not have raises AttributeError (caught only for
\* publication_date and authors); [0] of an empty list raises IndexError.
FromPymedArticle(article) ==
    IF \E name \in {"title", "abstract", "keywords", "doi", "pubmed_id"} :
          article[name].kind = "noattr"
    THEN Raised("AttributeError")
    ELSE IF AttrTruthy(article.pubmed_id) /\ Split(article.pubmed_id) = <<>>
    THEN Raised("IndexError")
    ELSE LET dois == IF AttrTruthy(article.doi) THEN Split(article.doi)
                     ELSE <<>>
             \* lines 272-274: the keyword list, or its first element when
             \* that is a list
             keywords ==
                 IF ~AttrTruthy(article.keywords) THEN <<>>
                 ELSE IF article.keywords.items[1].kind = "list"
                 THEN article.keywords.items[1].items
                 ELSE [k \in DOMAIN article.keywords.items |->
                          article.keywords.items[k].s]
         IN  PubMedArticle(
                [title          |-> FirstOrDefault(article.title,
                                                   "No title available"),
                 abstract       |-> FirstOrDefault(article.abstract,
                                                   "No abstract available"),
                 authors        |-> IF article.authors.kind = "list"
                                    THEN article.authors.items ELSE <<>>,
                 doi            |-> IF dois # <<>> THEN dois[1] ELSE None,
                 pmid           |-> IF AttrTruthy(article.pubmed_id)
                                    THEN Split(article.pubmed_id)[1]
                                    ELSE "No PMID available",
                 keywords       |-> keywords,
                 related_dois   |-> IF Len(dois) > 1 THEN Tail(dois) ELSE <<>>,
                 published_date |-> IF article.publication_date.kind = "date"
                                    THEN article.publication_date.date
                                    ELSE Now,
                 journal        |-> GetAttr(article.journal, None),
                 volume         |-> GetAttr(article.volume, None),
                 issue          |-> GetAttr(article.issue, None),
                 pages          |-> GetAttr(article.pages, None),
                 pubtype        |-> IF article.pubtype.kind = "list"
                                    THEN Given(article.pubtype.items)
                                    ELSE IF article.pubtype.kind = "noattr"
                                    THEN Given(<<>>) ELSE NoList]
                @@ InitDefaults)

\* an upstream object whose attributes are all None
EmptyPymed ==
    [present |-> TRUE, shape |-> "pymed",
     title |-> NoneAttr, abstract |-> NoneAttr, keywords |-> NoneAttr,
     doi |-> NoneAttr, pubmed_id |-> NoneAttr, publication_date |-> NoneAttr,
     authors |-> NoneAttr, journal |-> NoneAttr, volume |-> NoAttr,
     issue |-> NoAttr, pages |-> NoAttr, pubtype |-> NoAttr]

\* an upstream object with every attribute set
FullPymed ==
    [present |-> TRUE, shape |-> "pymed",
     title |-> StrAttr("A title", <<"A", " ", "title">>),
     abstract |-> StrAttr("An abstract", <<"An", " ", "abstract">>),
     keywords |-> ListAttr(<<StrAttr("k", <<"k">>)>>),
     doi |-> StrAttr("10.1/a", <<"10.1/a">>),
     pubmed_id |-> StrAttr("1", <<"1">>),
     publication_date |-> [kind |-> "date", date |-> Date(2020, 1, 15)],
     authors |-> ListAttr(<<"Smith J">>),
     journal |-> StrAttr("Nature", <<"Nature">>), volume |-> NoAttr,
     issue |-> NoAttr, pages |-> NoAttr, pubtype |-> NoAttr]

\* the upstream objects: the two above with one attribute varied.  A text
\* attribute may also come as a list of texts; an identifier attribute
\* holds several whitespace-separated identifiers.
PymedArticles ==
    LET TextOrList(s, tokens) ==
            {NoAttr, NoneAttr, StrAttr("", <<>>), StrAttr(s, tokens),
             ListAttr(<<>>), ListAttr(<<s>>)}
        IdTexts(a, b) ==
            {NoAttr, NoneAttr, StrAttr("", <<>>), StrAttr(" ", <<" ">>),
             StrAttr(a, <<a>>), StrAttr(a \o " " \o b, <<a, " ", b>>),
             StrAttr(a \o " " \o b \o " " \o a, <<a, " ", b, " ", a>>)}
        PymedValues ==
            [title            |-> TextOrList("A title", <<"A", " ", "title">>),
             abstract         |-> TextOrList("An abstract",
                                             <<"An", " ", "abstract">>),
             keywords         |-> {NoAttr, NoneAttr, ListAttr(<<>>),
                                   ListAttr(<<StrAttr("k", <<"k">>)>>),
                                   ListAttr(<<ListAttr(<<"k">>)>>)},
             doi              |-> IdTexts("10.1/a", "10.2/b"),
             pubmed_id        |-> IdTexts("1", "2"),
             publication_date |-> {NoAttr, NoneAttr,
                                   [kind |-> "date",
                                    date |-> Date(2020, 1, 15)]},
             authors          |-> {NoAttr, NoneAttr}
                                  \cup {ListAttr(l) :
                                           l \in SeqUpTo({"Smith J"}, MaxItems)},
             journal          |-> {NoAttr, NoneAttr,
                                   StrAttr("Nature", <<"Nature">>)},
             pubtype          |-> {NoAttr, NoneAttr, ListAttr(<<"Review">>)}]
    IN  UNION {{[base EXCEPT ![f] = v] : v \in PymedValues[f]} :
                  base \in {EmptyPymed, FullPymed}, f \in DOMAIN PymedValues}

(***************************************************************************)
(* One call of a constructor on one upstream record, then to_dict          *)
(***************************************************************************)
\* PubMedArticle.from_xml(xml_content)
FromXmlCall ==
    /\ raw_record.shape = "xml"
    /\ reconciled = NotCalled
    /\ parsed_xml' = ParsePubmedArticle(raw_record)
    /\ reconciled' = FromXml(raw_record)
    /\ UNCHANGED <<date_elem, parsed_date, raw_record, best_date, serialized>>
    /\ UNCHANGED <<orchVars, clockVars, paceVars, batchVars, storeVars>>

\* PubMedArticle.from_esummary(summary_data)
FromEsummaryCall ==
    /\ raw_record.shape = "esummary"
    /\ reconciled = NotCalled
    /\ reconciled' = FromEsummary(raw_record)
    /\ UNCHANGED <<date_elem, parsed_date, raw_record, parsed_xml, best_date,
                   serialized>>
    /\ UNCHANGED <<orchVars, clockVars, paceVars, batchVars, storeVars>>

\* PubMedArticle.from_pymed_article(article)
FromPymedArticleCall ==
    /\ raw_record.shape = "pymed"
    /\ reconciled = NotCalled
    /\ reconciled' = FromPymedArticle(raw_record)
    /\ UNCHANGED <<date_elem, parsed_date, raw_record, parsed_xml, best_date,
                   serialized>>
    /\ UNCHANGED <<orchVars, clockVars, paceVars, batchVars, storeVars>>

\* article.to_dict()
ToDictCall ==
    /\ reconciled.kind = "article"
    /\ serialized = NotCalled
    /\ serialized' = PubMedArticleToDict(reconciled)
    /\ UNCHANGED <<date_elem, parsed_date, raw_record, parsed_xml, best_date,
                   reconciled>>
    /\ UNCHANGED <<orchVars, clockVars, paceVars, batchVars, storeVars>>

\* PubMedDates.get_best_date() of the dates parse_dates built
GetBestDateCall ==
    /\ raw_record.shape = "xml"
    /\ raw_record.PubmedArticle /\ raw_record.MedlineCitation
    /\ raw_record.Article
    /\ ParseDates(raw_record).kind = "dates"
    /\ best_date = NotCalled
    /\ best_date' = GetBestDate(ParseDates(raw_record).dates)
    /\ UNCHANGED <<date_elem, parsed_date, raw_record, parsed_xml, reconciled,
                   serialized>>
    /\ UNCHANGED <<orchVars, clockVars, paceVars, batchVars, storeVars>>

InitRec ==
    /\ raw_record \in XmlDocs \cup Esummaries \cup PymedArticles
    /\ parsed_xml = NotCalled
    /\ best_date = NotCalled
    /\ reconciled = NotCalled
    /\ serialized = NotCalled
    /\ date_elem = NoInput
    /\ parsed_date = NotCalled
    /\ InitOrch
    /\ InitClock
    /\ request_delay = MaxDelay
    /\ InitPaceIdle
    /\ InitBatchIdle
    /\ files = [path \in StorePaths |-> NoFile]
    /\ save_call = NotCalled

NextRec ==
    \/ FromXmlCall
    \/ FromEsummaryCall
    \/ FromPymedArticleCall
    \/ ToDictCall
    \/ GetBestDateCall

SpecRec == InitRec /\ [][NextRec]_vars

\* the store before any save: every path without a file, or with a file
\* an earlier run left
InitStore ==
    /\ files \in [StorePaths -> {NoFile, File(<<"a">>)}]
    /\ save_call = NotCalled
    /\ InitOrch
    /\ InitClock
    /\ request_delay = MaxDelay
    /\ InitPaceIdle
    /\ InitBatchIdle
    /\ InitRecIdle

SpecStore == InitStore /\ [][SaveFileCall]_vars

Init ==
    /\ InitOrch
    /\ InitClock
    /\ request_delay = MaxDelay
    /\ InitPaceIdle
    /\ InitBatchIdle
    /\ InitRecIdle
    /\ files = [path \in StorePaths |-> NoFile]
    /\ save_call = NotCalled

Next ==
    \/ Search
    \/ SaveSearchMetadata
    \/ FetchXml
    \/ FetchByIdXml
    \/ FetchByIdSearch
    \/ LogAndToDict
    \/ SaveMetadata
    \/ FetchSummary
    \/ FetchPdf
    \/ NextArticle
    \/ Summarize

Spec == Init /\ [][Next]_vars

(***************************************************************************)
(* Several calls of search_and_process, one after the other, on one        *)
(* storage                                                                 *)
(***************************************************************************)
\* the caller calls search_and_process again, some time after the previous
\* call returned: the locals of the new call are fresh, the storage is the
\* one the previous calls wrote to
NextCall ==
    /\ pc = "done"
    /\ Len(batches) < MaxBatches
    /\ \E elapsed \in {1, 60, 100} : now' = now + elapsed
    /\ pc' = "search"
    /\ articles' = <<>>
    /\ searchOk' = TRUE
    /\ search_id' = "none"
    /\ idx' = 0
    /\ cur' = FreshCur
    /\ results' = <<>>
    /\ failed_pmids' = <<>>
    /\ metaSave' = "none"
    /\ result' = [kind |-> "none"]
    /\ UNCHANGED <<store, batches, last_call, request_delay>>
    /\ UNCHANGED <<paceVars, batchVars, recVars, storeVars>>

\* calls whose search finds nothing: the loop over the search results,
\* which writes neither metadata/searches path, does not run
NextRuns ==
    \/ Search /\ articles' = <<>>
    \/ SaveSearchMetadata
    \/ Summarize
    \/ NextCall

SpecRuns == Init /\ [][NextRuns]_vars

(***************************************************************************)
(* search_and_process with every client call followed through its pacing   *)
(* gate: a step of the orchestrator that depends on an upstream call is     *)
(* taken while the body of that call runs, and the call returns after it    *)
(***************************************************************************)
NextPaced ==
    LET InBody(op, depth) ==
            /\ Len(stack) = depth
            /\ Top.op = op
            /\ Top.phase = "body"
        \* the orchestrator has yet to see the outcome of the innermost call
        Awaited ==
            \/ pc \in {"search", "fetch_xml", "fetch_summary", "fetch_pdf"}
                  /\ InBody(pc, 1)
            \/ pc = "fetch_by_id" /\ InBody("fetch_xml", 2)
            \/ pc = "fallback_search" /\ InBody("search", 2)
        \* the call the code makes next
        Expected(op) ==
            \/ /\ stack = <<>>
               /\ pc \in {"search", "fetch_xml", "fetch_by_id", "fetch_summary",
                           "fetch_pdf"}
               /\ op = pc
            \/ /\ stack # <<>>
               /\ pc = "fetch_by_id" /\ Top.phase = "by_id_start"
               /\ op = "fetch_xml"
            \/ /\ stack # <<>>
               /\ pc = "fallback_search" /\ Top.phase = "by_id_after_xml"
               /\ op = "search"
    IN  \/ \E op \in Ops : Expected(op) /\ GateCall(op)
        \/ PaceWake
        \/ LeafReturn /\ ~Awaited
        \/ ByIdReturn /\ pc # "fallback_search"
        \/ Search /\ InBody("search", 1) /\ Len(articles') <= MaxPacedResults
        \/ SaveSearchMetadata /\ stack = <<>>
        \/ FetchXml /\ InBody("fetch_xml", 1)
        \/ FetchByIdXml /\ InBody("fetch_xml", 2)
        \/ FetchByIdSearch /\ InBody("search", 2)
        \/ LogAndToDict /\ stack = <<>>
        \/ SaveMetadata /\ stack = <<>>
        \/ FetchSummary /\ InBody("fetch_summary", 1)
        \/ FetchPdf /\ InBody("fetch_pdf", 1)
        \/ NextArticle /\ stack = <<>>
        \/ Summarize /\ stack = <<>>

\* one coroutine runs search_and_process: while a step is possible, the event
\* loop takes one
SpecPaced == Init /\ [][NextPaced]_vars /\ WF_vars(NextPaced)

(***************************************************************************)
(* Properties                                                              *)
(***************************************************************************)
\* the citation document was unavailable, or could not be parsed
CitationFetchFailed(c) ==
    \/ c.xml1 \in {"absent", "raise"}
    \/ c.xml2 \in {"absent", "raise", "unparsable"}

\* both requests delivered the document and it was parsed
CitationFetchSucceeded(c) == c.xml1 = "ok" /\ c.xml2 = "ok"

\* a per-id upstream call has been issued in this batch
PerIdCallIssued == idx > 1 \/ cur.xml1 # "none"

\* every search result has been put on one of the two lists
AllProcessed == Len(results) + Len(failed_pmids) = Len(articles)

\* C1: when the processing of an id has ended, an unavailable or unparsable
\* citation document has led to the fallback search '<id>[pmid]', and the id
\* is on failed_pmids (no exception having occurred) only if that fallback
\* search was made and yielded nothing.
C1_FallbackBeforeFailed ==
    pc = "next" =>
        /\ (cur.xml1 = "absent" \/ cur.xml2 \in {"absent", "unparsable"})
              => cur.fb # "none"
        /\ (cur.status = "failed" /\ ~cur.exc) => cur.fb \in {"empty", "raise"}

\* C2: when the processing of an id has ended, an id whose citation fetch
\* failed and whose fallback search yielded no article is the last entry of
\* failed_pmids, an id whose citation fetch succeeded is the last entry of
\* results, and failed_pmids lists ids in processing order; the aggregate
\* reports the lengths of the two lists.
C2_FetchOutcomeDecidesList ==
    /\ pc = "next" =>
          /\ (CitationFetchFailed(cur) /\ cur.fb # "hit")
                => /\ failed_pmids # <<>>
                   /\ Last(failed_pmids) = pmid
          /\ CitationFetchSucceeded(cur)
                => /\ results # <<>>
                   /\ Last(results).pmid = pmid
          /\ IsSubSeq(failed_pmids, articles)
    /\ (pc = "done" /\ result.kind = "aggregate") =>
          /\ result.successfully_processed = Len(results)
          /\ result.failed_processing = Len(failed_pmids)
          /\ result.failed_pmids = failed_pmids

\* C3: when the initial search call failed, no id is processed and the
\* batch ends with the error-tagged result, which carries the query.
C3_SearchFailureGivesErrorResult ==
    ~searchOk =>
        /\ ~PerIdCallIssued
        /\ pc = "done" => (result.kind = "error" /\ result.query = Query)

\* C4: an exception thrown while an id is processed is caught: the id is
\* the last entry of failed_pmids when its processing ends, and the batch
\* ends with the aggregate or the error-tagged result, every search result
\* having been processed.
C4_PerIdExceptionsContained ==
    /\ cur.exc =>
          /\ pc \in {"next", "summarize", "done"}
          /\ cur.status = "failed"
          /\ failed_pmids # <<>>
          /\ Last(failed_pmids) = pmid
    /\ pc = "done" =>
          /\ result.kind \in {"aggregate", "error"}
          /\ AllProcessed

\* an exception was caught for an id that is not the last of the batch
C4_Witness ==
    /\ pc = "next"
    /\ cur.exc
    /\ idx < Len(articles)
    /\ Last(failed_pmids) = pmid

\* C5: once the record of an id has been handed to _save_metadata (its
\* Article was built), the id ends on results whatever the summary fetch, the
\* PDF fetch and their saves did, and the PDF fetch is attempted whatever the
\* summary fetch did.
C5_SideFetchesNeverFail ==
    /\ (cur.recSave # "none" /\ pc \in {"next", "summarize", "done"}) =>
          /\ cur.status = "ok"
          /\ cur.sum # "none"
          /\ cur.pdf # "none"
          /\ results # <<>>
          /\ Last(results).pmid = pmid
    /\ cur.sum # "none" => pc \in {"fetch_pdf", "next", "summarize", "done"}

\* the summary fetch raised, the PDF was fetched but its save failed, and the
\* id is counted as successful
C5_Witness ==
    /\ pc = "next"
    /\ cur.sum = "raise"
    /\ cur.pdf = "data"
    /\ cur.pdfSave = "fail"
    /\ cur.status = "ok"

\* C6: the underlying call of a rate-limited operation starts at least the
\* pacing interval after the end of the previous underlying call on the
\* client, whichever operation that was.
C6_IntervalSincePreviousCall ==
    (lastStart.op # "none" /\ lastStart.prevOp # "none") =>
        lastStart.at - lastStart.prevEnd >= lastStart.delay

\* C7: no two tasks of a batch pass the pacing gate on the same observed
\* last_call value, and the underlying calls of any two tasks start at least
\* one pacing interval apart.
C7_GateAtomicAcrossTasks ==
    \A t, u \in TaskIds :
        (t # u /\ Started(t) /\ Started(u)) =>
            /\ tasks[t].observed # tasks[u].observed
            /\ \/ tasks[t].start - tasks[u].start >= AppliedDelay("fetch_pdf")
               \/ tasks[u].start - tasks[t].start >= AppliedDelay("fetch_pdf")

\* C8: the interval the gate applied to a fetch_pdf call is strictly shorter
\* than the interval it applies to the metadata operations of the client.
C8_PdfIntervalShorter ==
    lastStart.op = "fetch_pdf" =>
        \A op \in Ops \ {"fetch_pdf"} : lastStart.delay < AppliedDelay(op)

\* C9: when batch_fetch_pdfs has returned, it returned a mapping, every task
\* has run to completion, the mapping has an entry for exactly the requested
\* ids, and the entry of an id is the outcome of the (last) task of that id.
C9_BatchKeepsEveryOutcome ==
    batchResult.kind # "none" =>
        /\ batchResult.kind = "mapping"
        /\ \A t \in TaskIds : tasks[t].phase = "done"
        /\ DOMAIN batchResult.map = Range(article_ids)
        /\ \A t \in TaskIds :
              (\A u \in TaskIds : tasks[u].pmid = tasks[t].pmid => u <= t)
                  => batchResult.map[tasks[t].pmid] = tasks[t].outcome

\* two ids were requested, the task of one raised, the task of the other
\* delivered its PDF, and the mapping holds both outcomes
C9_Witness ==
    /\ batchResult.kind = "mapping"
    /\ \E t, u \in TaskIds :
          /\ tasks[t].pmid # tasks[u].pmid
          /\ tasks[t].outcome = "exc"
          /\ tasks[u].outcome = "pdf"
          /\ batchResult.map[tasks[t].pmid] = "exc"
          /\ batchResult.map[tasks[u].pmid] = "pdf"

\* C10: once a per-id upstream call has been issued, the save of the
\* search-metadata blob has been made, and the blob it wrote lists the ids of
\* the initial search in order; the summary blob exists only when the batch
\* has ended with every id processed.
C10_BlobOrder ==
    /\ PerIdCallIssued =>
          /\ metaSave # "none"
          /\ metaSave = "ok" =>
                store[SearchPath(search_id)] = SearchMetadata(articles)
    /\ \A b \in BatchIds :
          store[SearchSummaryPath(b)] # Absent =>
              /\ pc = "done"
              /\ AllProcessed

\* both blobs of a batch of two ids are in the store at the end
C10_Witness ==
    /\ pc = "done"
    /\ Len(articles) >= 2
    /\ store[SearchPath(search_id)].pmids = articles
    /\ store[SearchSummaryPath(search_id)].kind = "batch_summary"

\* C11: a save that returned False never ends the processing of the id or
\* of the batch: an id whose record, summary or PDF save failed goes on to
\* the next step and is the last entry of results when its processing ends;
\* whatever the saves of the search metadata and of the batch summary
\* returned, the batch ends with every search result processed and with the
\* aggregate, the error result being returned only when the summary cannot
\* be serialised.
C11_SaveFailureNeverAborts ==
    /\ cur.recSave = "fail" =>
          /\ pc \in {"fetch_summary", "fetch_pdf", "next", "summarize", "done"}
          /\ cur.status # "failed"
    /\ (cur.sumSave = "fail" \/ cur.pdfSave = "fail") => cur.status # "failed"
    /\ (pc = "next" /\ "fail" \in {cur.recSave, cur.sumSave, cur.pdfSave}) =>
          /\ cur.status = "ok"
          /\ results # <<>>
          /\ Last(results).pmid = pmid
    /\ pc = "done" =>
          /\ AllProcessed
          /\ result.kind = "aggregate" <=> ~SummaryDumpRaises(results)

\* every save of a batch of two ids failed, the batch summary included, and
\* the aggregate was returned with the last id processed
C11_Witness ==
    /\ pc = "done"
    /\ Len(articles) >= 2
    /\ metaSave = "fail"
    /\ cur.recSave = "fail"
    /\ cur.sumSave = "fail"
    /\ cur.pdfSave = "fail"
    /\ store[SearchSummaryPath(search_id)] = Absent
    /\ result.kind = "aggregate"
    /\ result.successfully_processed >= 1

\* C15: _parse_date never raises: whatever the Year, Month and Day nodes
\* are, what it returns is a date or null.
C15_ParseDateNeverRaises ==
    parsed_date # NotCalled => parsed_date.kind \in {"date", "null"}

\* C16: for a numeric year, the month and the day are 1 when absent or not
\* numeric; the result is that calendar date, and null when a numeric month
\* or day is outside the calendar.
C16_PartialDateDefaults ==
    (/\ parsed_date # NotCalled
     /\ date_elem.present
     /\ date_elem.Year.present
     /\ IsDigit(date_elem.Year.text)
     /\ DecimalValue(date_elem.Year.text) \in 1..9999) =>
        LET taken(n) == IF n.present /\ IsDigit(n.text)
                        THEN DecimalValue(n.text) ELSE 1
            y == DecimalValue(date_elem.Year.text)
            m == taken(date_elem.Month)
            d == taken(date_elem.Day)
        IN  parsed_date =
               IF m \in 1..12 /\ d \in 1..DaysInMonth(y, m)
               THEN Date(y, m, d) ELSE Null

\* C12: every Article a constructor returned has a non-empty external id
\* (pmid and source_id), a non-empty source kind, and a title and an
\* abstract that are strings and are not empty (the placeholder standing in
\* when the upstream record lacks them).
C12_ArticleInvariants ==
    reconciled.kind = "article" =>
        /\ Truthy(reconciled.pmid)
        /\ Truthy(reconciled.source_id)
        /\ Truthy(reconciled.source_type)
        /\ Truthy(reconciled.title)
        /\ Truthy(reconciled.abstract)

\* C13: no constructor raises: from_esummary and from_pymed_article return
\* an Article for every upstream record, and so does from_xml for every
\* document the parser returned a dictionary for.
C13_ConstructorsNeverRaise ==
    (/\ reconciled # NotCalled
     /\ raw_record.shape = "xml" => parsed_xml.kind = "dict") =>
        reconciled.kind = "article"

\* C14: parse_pubmed_article raises exactly for the documents without the
\* root PubmedArticle element, and then a ValueError; for every other
\* document it returns the dictionary, in which a missing Journal gives the
\* placeholder journal, a missing AuthorList, GrantList or ReferenceList the
\* empty list, and a missing or malformed date block null.
C14_ParserFailsOnlyWithoutRoot ==
    (raw_record.present /\ raw_record.shape = "xml"
        /\ parsed_xml # NotCalled) =>
        /\ parsed_xml.kind = "raised" <=> ~raw_record.PubmedArticle
        /\ parsed_xml.kind = "raised" => parsed_xml.exc = "ValueError"
        /\ parsed_xml.kind = "dict" =>
              /\ ~raw_record.Journal.present =>
                    parsed_xml.journal =
                       PubMedJournal("Unknown Journal", None, None, None, None)
              /\ ~raw_record.AuthorList.present => parsed_xml.authors = <<>>
              /\ ~raw_record.GrantList.present => parsed_xml.grants = <<>>
              /\ ~raw_record.ReferenceList.present
                    => parsed_xml.references = <<>>
              /\ LET name == [DateCompleted |-> "completed",
                              DateRevised   |-> "revised",
                              ArticleDate   |-> "electronic_pub",
                              PubDate       |-> "pub_date"]
                 IN  \A block \in DOMAIN name :
                        ~raw_record[block].present =>
                           parsed_xml.dates[name[block]] = Null

\* C17: the display names of an Article built from a citation document are
\* the full names of its structured authors, in the same order: 'Last,
\* Given' with a given name, else 'Last, Initials' with initials, else
\* 'Last'.
C17_DisplayNamesFollowFullNameRule ==
    (raw_record.present /\ raw_record.shape = "xml"
        /\ reconciled.kind = "article") =>
        /\ reconciled.author_details = parsed_xml.authors
        /\ reconciled.authors =
              [k \in DOMAIN reconciled.author_details |->
                  GetFullName(reconciled.author_details[k])]

\* C18: get_best_date returns the first of print publication, electronic
\* publication, completed, revised that is not null, and null when all four
\* are; the publication date of an Article built from a citation document
\* is the first of these four, in the same order, that the parser resolved,
\* and now exactly when it resolved none.
C18_BestDateOrder ==
    (raw_record.present /\ raw_record.shape = "xml"
        /\ (best_date # NotCalled \/ reconciled.kind = "article")) =>
        LET d     == ParseDates(raw_record).dates
            order == <<d.pub_date, d.electronic_pub, d.completed, d.revised>>
            FirstOf(r) ==
                \/ \E k \in DOMAIN order :
                      /\ order[k] # Null
                      /\ r = order[k]
                      /\ \A j \in 1..(k - 1) : order[j] = Null
                \/ /\ \A k \in DOMAIN order : order[k] = Null
                   /\ r = Null
        IN  /\ best_date # NotCalled => FirstOf(best_date)
            /\ reconciled.kind = "article" =>
                  /\ reconciled.published_date # Now
                        => FirstOf(reconciled.published_date)
                  /\ reconciled.published_date = Now <=> FirstOf(Null)

\* only the electronic and the completed date are there; both get_best_date
\* and the Article give the electronic date
C18_Witness ==
    /\ raw_record.present /\ raw_record.shape = "xml"
    /\ reconciled.kind = "article"
    /\ best_date # NotCalled
    /\ ~raw_record.PubDate.present
    /\ ~raw_record.DateRevised.present
    /\ ParseDate(raw_record.ArticleDate).kind = "date"
    /\ ParseDate(raw_record.DateCompleted).kind = "date"
    /\ ParseDate(raw_record.ArticleDate) # ParseDate(raw_record.DateCompleted)
    /\ best_date = ParseDate(raw_record.ArticleDate)
    /\ reconciled.published_date = best_date

\* C19: in every Article a constructor returned no extended field is null:
\* the journal descriptor and the date bundle are objects, and the
\* publication types, structured authors, MeSH headings, grants, references
\* and chemicals are the lists of the parsed document on the citation path
\* and empty lists where the upstream record has none.
C19_ExtendedFieldsNeverNull ==
    reconciled.kind = "article" =>
        /\ reconciled.journal_details # Null
        /\ reconciled.dates # Null
        /\ raw_record.shape = "xml" =>
              /\ reconciled.pubtype = parsed_xml.publication_types
              /\ reconciled.author_details = parsed_xml.authors
              /\ reconciled.journal_details = parsed_xml.journal
              /\ reconciled.mesh_headings = parsed_xml.mesh_headings
              /\ reconciled.grants = parsed_xml.grants
              /\ reconciled.references = parsed_xml.references
              /\ reconciled.chemicals = parsed_xml.chemicals
        /\ raw_record.shape # "xml" =>
              /\ reconciled.author_details = <<>>
              /\ reconciled.mesh_headings = <<>>
              /\ reconciled.grants = <<>>
              /\ reconciled.references = <<>>
              /\ reconciled.chemicals = <<>>

\* C20: to_dict holds every field of the Article, the extended ones
\* included whether empty or not, the publication date as ISO text and the
\* dates of the bundle as ISO texts.
C20_ToDictHoldsEveryField ==
    serialized # NotCalled =>
        /\ {"title", "abstract", "authors", "doi", "related_dois",
            "source_id", "source_type", "published_date", "journal",
            "volume", "issue", "pages", "pubtype", "author_details",
            "journal_details", "dates", "mesh_headings", "grants",
            "references", "chemicals"} \subseteq DOMAIN serialized
        /\ serialized.published_date.kind \in {"iso", "iso_now"}
        /\ \A name \in DOMAIN serialized.dates :
              serialized.dates[name].kind \in {"iso", "null"}

\* C21: an Article built from a search-result record whose DOI attribute
\* holds several whitespace-separated identifiers has the first as its DOI
\* and the others, in order, as its related DOIs; when the external id
\* holds several tokens the Article keeps only the first.
C21_FirstIdentifierIsPrimary ==
    (raw_record.present /\ raw_record.shape = "pymed"
        /\ reconciled.kind = "article") =>
        LET several(attr) ==
                /\ attr.kind = "str"
                /\ Len(SelectSeq(attr.tokens, LAMBDA t : t # " ")) > 1
            ids(attr) == SelectSeq(attr.tokens, LAMBDA t : t # " ")
        IN  /\ several(raw_record.doi) =>
                  /\ reconciled.doi = Head(ids(raw_record.doi))
                  /\ reconciled.related_dois = Tail(ids(raw_record.doi))
            /\ several(raw_record.pubmed_id) =>
                  /\ reconciled.pmid = Head(ids(raw_record.pubmed_id))
                  /\ reconciled.source_id = reconciled.pmid

\* a DOI attribute with three identifiers: one primary, two related, in the
\* order of the text
C21_Witness ==
    /\ raw_record.present /\ raw_record.shape = "pymed"
    /\ reconciled.kind = "article"
    /\ raw_record.doi.kind = "str"
    /\ raw_record.doi.tokens = <<"10.1/a", " ", "10.2/b", " ", "10.1/a">>
    /\ reconciled.doi = "10.1/a"
    /\ reconciled.related_dois = <<"10.2/b", "10.1/a">>

\* C22: every reference of the parsed dictionary has, as external id, DOI
\* and repository id, the text of the last identifier of its block whose
\* type is 'pubmed', 'doi' and 'pmc', and null where the block has no
\* identifier of that type; identifiers of other types change nothing.
C22_LastIdentifierOfTypeWins ==
    (raw_record.present /\ raw_record.shape = "xml"
        /\ parsed_xml.kind = "dict") =>
        LET blocks == IF raw_record.ReferenceList.present
                      THEN raw_record.ReferenceList.Reference ELSE <<>>
            Kept(ids, type) ==
                LET found == {k \in DOMAIN ids : ids[k].IdType = type}
                IN  IF found = {} THEN None
                    ELSE ids[CHOOSE k \in found : \A j \in found : j <= k].text
        IN  /\ Len(parsed_xml.references) = Len(blocks)
            /\ \A k \in DOMAIN blocks :
                  LET ids == IF blocks[k].ArticleIdList.present
                             THEN blocks[k].ArticleIdList.ArticleId ELSE <<>>
                      ref == parsed_xml.references[k]
                  IN  /\ ref.pmid = Kept(ids, "pubmed")
                      /\ ref.doi = Kept(ids, "doi")
                      /\ ref.pmc_id = Kept(ids, "pmc")

\* a reference block with two 'doi' identifiers: the second is kept, and
\* the other two ids are null
C22_Witness ==
    /\ raw_record.present /\ raw_record.shape = "xml"
    /\ parsed_xml.kind = "dict"
    /\ Len(parsed_xml.references) = 1
    /\ raw_record.ReferenceList.Reference[1].ArticleIdList.ArticleId
          = <<[IdType |-> "doi", text |-> "id1"],
              [IdType |-> "doi", text |-> "id2"]>>
    /\ parsed_xml.references[1].doi = "id2"
    /\ parsed_xml.references[1].pmid = None
    /\ parsed_xml.references[1].pmc_id = None

\* C23: save_file never raises: every call returns a boolean.  A call that
\* returned True leaves at its path one file holding exactly the content
\* of this call, whatever was there before, and no call changes the file
\* at any other path.
C23_SaveFileOverwritesInPlace ==
    [][SaveFileCall =>
          /\ save_call'.result.kind = "returned"
          /\ save_call'.result.value =>
                files'[save_call'.relative_path] = File(save_call'.content)
          /\ \A path \in StorePaths \ {save_call'.relative_path} :
                files'[path] = files[path]
          /\ DOMAIN files' = StorePaths]_vars

\* a second save to a path that held another content: the call returned
\* True and the file holds the second content
C23_Witness ==
    /\ save_call.kind = "called"
    /\ save_call.result = [kind |-> "returned", value |-> TRUE]
    /\ save_call.previous.kind = "file"
    /\ save_call.previous.bytes = <<"b">>
    /\ save_call.content = <<"a">>
    /\ files[save_call.relative_path] = File(<<"a">>)
    /\ \E path \in StorePaths \ {save_call.relative_path} :
          files[path] = File(<<"b">>)

\* C24: in every aggregate that search_and_process returns,
\* total_articles_found is the number of search results,
\* successfully_processed the length of articles, failed_processing the
\* length of failed_pmids, the two counts add up to the total, and every
\* search result is on exactly one of the two lists, once.
C24_AggregateCountsAddUp ==
    result.kind = "aggregate" =>
        /\ result.total_articles_found = Len(articles)
        /\ result.successfully_processed = Len(result.articles)
        /\ result.failed_processing = Len(result.failed_pmids)
        /\ result.successfully_processed + result.failed_processing
              = result.total_articles_found
        /\ \A k \in DOMAIN articles :
              Cardinality({j \in DOMAIN result.articles :
                              result.articles[j].pmid = articles[k]})
              + Cardinality({j \in DOMAIN result.failed_pmids :
                                result.failed_pmids[j] = articles[k]}) = 1

\* an aggregate of two search results, one processed after an exception of
\* its citation fetch and one with its Article built
C24_Witness ==
    /\ result.kind = "aggregate"
    /\ result.total_articles_found = 2
    /\ result.successfully_processed = 1
    /\ result.failed_processing = 1
    /\ cur.exc
    /\ result.failed_pmids = <<articles[2]>>
    /\ result.articles[1].pmid = articles[1]

\* C25: the ids of a batch are processed one at a time in search-result
\* order, and the steps of an id come in the order citation XML fetched,
\* Article built, record saved, summary fetch, PDF fetch: every step of the
\* loop moves the current id forward in that order, the summary fetch
\* follows the record save of a built Article and the PDF fetch follows the
\* summary fetch, an id is put on a list only as the current id, and the
\* next id is taken, with nothing of it done yet, only when the current id
\* is on a list.
C25_StepsInOrderOneIdAtATime ==
    [][LET PerId == {"fetch_xml", "fetch_by_id", "fallback_search", "to_dict",
                     "save_metadata", "fetch_summary", "fetch_pdf", "next"}
           Rank == [step \in PerId |->
                      CASE step = "fetch_xml" -> 1
                        [] step = "fetch_by_id" -> 2
                        [] step = "fallback_search" -> 3
                        [] step = "to_dict" -> 4
                        [] step = "save_metadata" -> 5
                        [] step = "fetch_summary" -> 6
                        [] step = "fetch_pdf" -> 7
                        [] OTHER -> 8]
           Built(c) == c.article # NoArticle
       IN  /\ (pc \in PerId /\ pc' \in PerId) =>
                 IF idx' = idx
                 THEN Rank[pc'] > Rank[pc]
                 ELSE /\ pc = "next" /\ pc' = "fetch_xml"
                      /\ idx' = idx + 1
                      /\ cur.status \in {"ok", "failed"}
                      /\ cur' = FreshCur
           /\ (pc \in PerId /\ pc' \notin PerId) => pc = "next"
           /\ pc' = "to_dict" => (~Built(cur) /\ Built(cur') /\ cur.xml1 = "ok")
           /\ pc' = "save_metadata" => (pc = "to_dict" /\ Built(cur))
           /\ pc' = "fetch_summary" =>
                 (pc = "save_metadata" /\ Built(cur) /\ cur'.recSave # "none")
           /\ pc' = "fetch_pdf" => (pc = "fetch_summary" /\ Built(cur))
           /\ (idx' = idx /\ cur'.sum # cur.sum) =>
                 (pc = "fetch_summary" /\ Built(cur))
           /\ (idx' = idx /\ cur'.pdf # cur.pdf) =>
                 (pc = "fetch_pdf" /\ cur.sum # "none")
           /\ (pc \in PerId /\ results' # results) =>
                 (results' = Append(results, ToDict(cur.article, articles[idx]))
                  /\ pc' = "next" /\ failed_pmids' = failed_pmids)
           /\ (pc \in PerId /\ failed_pmids' # failed_pmids) =>
                 (failed_pmids' = Append(failed_pmids, articles[idx])
                  /\ pc' = "next" /\ results' = results)
           /\ (pc \in PerId /\ pc' = "next") =>
                 Len(results') + Len(failed_pmids') = idx]_vars

\* a batch of two ids has ended, both ids went through every step, and
\* their payloads are on the list in search-result order
C25_Witness ==
    /\ pc = "done"
    /\ Len(articles) = 2
    /\ idx = 2
    /\ cur.xml1 = "ok" /\ cur.xml2 = "ok"
    /\ cur.recSave = "ok" /\ cur.sum = "data" /\ cur.pdf = "data"
    /\ Len(results) = 2
    /\ results[1].pmid = articles[1]
    /\ results[2].pmid = articles[2]

\* C26: an id for which an Article was built is counted as successfully
\* processed, its payload being put on the list of articles, whatever the
\* saves of the record, the summary and the PDF returned: when the
\* processing of an id has ended and an Article was built for it, its
\* payload is the last entry of results and the id is not on failed_pmids.
C26_BuiltArticleCountsAsSuccess ==
    (pc = "next" /\ cur.article # NoArticle) =>
        /\ cur.status = "ok"
        /\ results # <<>>
        /\ Last(results) = ToDict(cur.article, pmid)
        /\ \A k \in DOMAIN failed_pmids : failed_pmids[k] # pmid

\* C27: an id on failed_pmids has had no record, summary or PDF blob
\* written for it in this batch: after every step, no blob of a failed id is
\* in the store and no save was attempted for a current id that failed, a
\* save is attempted only for an id whose Article was built, and once the
\* record save of the current id has been attempted no step puts an id on
\* failed_pmids.
C27_FailedIdsHaveNoBlobs ==
    [][/\ \A k \in DOMAIN failed_pmids' :
             /\ store'[MetadataPath("xml", failed_pmids'[k])] = Absent
             /\ store'[MetadataPath("summary", failed_pmids'[k])] = Absent
             /\ store'[PdfPath(failed_pmids'[k])] = Absent
       /\ cur'.status = "failed" =>
             (cur'.recSave = "none" /\ cur'.sumSave = "none"
              /\ cur'.pdfSave = "none")
       /\ (cur'.recSave # "none" \/ cur'.sumSave # "none"
              \/ cur'.pdfSave # "none") => cur'.article # NoArticle
       /\ (cur.recSave # "none" /\ idx' = idx) =>
             failed_pmids' = failed_pmids]_vars

\* a batch of two ids has ended: the first id failed with nothing written
\* for it, the record, summary and PDF of the second are in the store
C27_Witness ==
    /\ pc = "done"
    /\ Len(articles) = 2
    /\ failed_pmids = <<articles[1]>>
    /\ store[MetadataPath("xml", articles[1])] = Absent
    /\ store[MetadataPath("summary", articles[1])] = Absent
    /\ store[PdfPath(articles[1])] = Absent
    /\ store[MetadataPath("xml", articles[2])] # Absent
    /\ store[MetadataPath("summary", articles[2])] # Absent
    /\ store[PdfPath(articles[2])] # Absent

\* C28: on the success path of an id the citation XML is requested twice,
\* and the record is built from the second response alone: an Article
\* exists only after the orchestrator's own request delivered a document
\* and fetch_by_id made its request, it has the XML shape exactly when the
\* second response was delivered and parsed, and the search shape exactly
\* when the second response was unavailable or unparsable and the fallback
\* search had a hit; the record written to metadata/xml/{id}.json, tagged
\* 'xml', is the one built from that Article.
C28_RecordBuiltFromSecondResponse ==
    /\ cur.article # NoArticle =>
          /\ cur.xml1 = "ok"
          /\ cur.xml2 # "none"
          /\ cur.article.src = "xml" <=> cur.xml2 = "ok"
          /\ cur.article.src = "search" <=>
                (cur.xml2 \in {"absent", "unparsable"} /\ cur.fb = "hit")
    /\ cur.recSave # "none" => cur.article # NoArticle
    /\ cur.recSave = "ok" =>
          store[MetadataPath("xml", pmid)]
              = Blob("xml", <<pmid>>, IF cur.xml2 = "ok" THEN "xml" ELSE "search")

\* the first request delivered the document, the second did not parse, the
\* fallback search had a hit, and the record at metadata/xml/{id}.json is
\* the one built from the search result
C28_Witness ==
    /\ pc = "next"
    /\ cur.xml1 = "ok"
    /\ cur.xml2 = "unparsable"
    /\ cur.fb = "hit"
    /\ cur.recSave = "ok"
    /\ cur.status = "ok"
    /\ store[MetadataPath("xml", pmid)] = Blob("xml", <<pmid>>, "search")

C30_BatchTerminates ==
    /\ [][(stack # <<>> /\ Top.phase = "sleep" /\ stack' # stack) =>
             /\ Len(stack') = Len(stack)
             /\ stack'[Len(stack')].op = Top.op
             /\ stack'[Len(stack')].phase \in {"body", "by_id_start"}]_vars
    /\ <>(/\ pc = "done"
          /\ stack = <<>>
          /\ result.kind \in {"aggregate", "error"}
          /\ \A k \in DOMAIN articles :
                Cardinality({j \in DOMAIN results :
                                results[j].pmid = articles[k]})
                + Cardinality({j \in DOMAIN failed_pmids :
                                  failed_pmids[j] = articles[k]}) = 1)

\* a batch of one id has ended after seven calls through the gates, the
\* fetch_xml and the search inside fetch_by_id among them, the second
\* fetch_xml having been put to sleep by its gate
C30_Witness ==
    /\ pc = "done"
    /\ stack = <<>>
    /\ nCalls = 7
    /\ cur.xml2 = "unparsable" /\ cur.fb = "hit"
    /\ last_call["fetch_xml"] > last_call["fetch_by_id"]
    /\ result.kind = "aggregate"
    /\ result.successfully_processed = 1

====
